---- MODULE Spec2Model ----
(***************************************************************************)
(* RepoSense: context acquisition (services/github.ts), the calling        *)
(* pipeline (App.tsx) and the streaming report assembly                    *)
(* (services/gemini.ts, api/analyze.ts).                                   *)
(*                                                                         *)
(* Text is modelled as a sequence of one-character strings, so that the    *)
(* string operations of the source (trim, startsWith, includes, regular    *)
(* expressions, split) are computed character by character.                *)
(***************************************************************************)
EXTENDS Integers, Sequences, FiniteSets, TLC

VARIABLES
  \* ---- selectImportantFiles applied to a listing (SpecSelect)
  listing,      \* the input listing: a sequence of GithubContentItem
  selected,     \* the output of selectImportantFiles
  reselected,   \* the output of selectImportantFiles applied to selected
  selPc         \* "input" | "done" | "again"

selVars == <<listing, selected, reselected, selPc>>

VARIABLES
  \* ---- getRepoContext (SpecFetch)
  remote,       \* the repository served by the source-hosting API
  gPc,          \* "idle" | "root" | "src" | "files" | "returned" | "threw"
  dirPhase,     \* the directory request in flight: "none" | "pending" | "body"
  rootItems,    \* result of the root listing
  fileTree,     \* paths of root and source-folder listings
  fileReqs,     \* one record per selected file: its request, timer and result
  context,      \* the value getRepoContext returned, or the error it threw
  answered      \* history: <<call, status, failure>> of every call that ended

fetchVars == <<remote, gPc, dirPhase, rootItems, fileTree, fileReqs, context, answered>>

VARIABLES
  \* ---- parseAnalysisResult applied to a text (SpecParse)
  pText,        \* the input text
  pVariant,     \* which parseAnalysisResult: "gemini.ts" | "streaming"
  pReport,      \* the Report returned
  pPc           \* "input" | "done"

parseVars == <<pText, pVariant, pReport, pPc>>

VARIABLES
  \* ---- the streaming analyzeRepo and the /api/analyze handler (SpecStream)
  sText,            \* the text the generation backend produces
  sFallback,        \* the isFallback argument of analyzeRepo
  genLeft,          \* chunks the backend has not produced yet
  wire,             \* bytes enqueued by the handler and not read yet
  streamState,      \* "open" | "closed" | "errored"
  aPc,              \* "request" | "reading" | "returned" | "threw"
  accumulatedText,  \* accumulatedText of analyzeRepo
  decoderPending,   \* bytes the TextDecoder holds back (incomplete character)
  received,         \* history: the chunks reader.read() delivered
  onProgress,       \* whether the caller passed an onProgress callback
  calls,            \* history: the Reports passed to onProgress
  result            \* the Report analyzeRepo returned

streamVars == <<sText, sFallback, genLeft, wire, streamState, aPc, accumulatedText,
                decoderPending, received, onProgress, calls, result>>

VARIABLES
  \* ---- App.tsx: the component state and the handleAnalyze call in flight
  state,           \* state: AnalysisState (status, message, data)
  currentStep,     \* currentStep
  url,             \* url: "empty" | "invalid" | "valid" (what parseRepoUrl makes of it)
  geminiApiKey,    \* whether geminiApiKey is a non-empty string
  isSettingsOpen,  \* isSettingsOpen
  hPc,             \* where handleAnalyze stands: "none" | "getRepoContext" | "delay" | "analyzeRepo"
  isFallback,      \* context.isFallback of the attempt in flight
  attempts,        \* history: the number of handleAnalyze calls
  delivered,       \* history: progress snapshots delivered in the current attempt
  outcomes,        \* history: terminal outcomes of the current attempt
  trail            \* history: the status of every setState call, in order

appVars == <<state, currentStep, url, geminiApiKey, isSettingsOpen, hPc, isFallback,
             attempts, delivered, outcomes, trail>>

VARIABLES
  \* ---- parseRepoUrl applied to a URL string (SpecUrl)
  uInput,       \* the argument url
  uResult,      \* what parseRepoUrl returned
  uPc           \* "input" | "returned" | "threw"

urlVars == <<uInput, uResult, uPc>>

VARIABLES
  \* ---- the prompt analyzeRepo builds from its arguments (SpecPrompt)
  qRepoName,       \* the argument repoName
  qFileTree,       \* the argument fileTree: a sequence of paths
  qFiles,          \* the argument files: a sequence of FileData
  qDeepReasoning,  \* the argument deepReasoning
  qIsFallback,     \* the argument isFallback
  prompt,          \* the prompt sent to the generation backend
  qPc              \* "input" | "gemini.ts" | "streaming" (which analyzeRepo built it)

promptVars == <<qRepoName, qFileTree, qFiles, qDeepReasoning, qIsFallback, prompt, qPc>>

VARIABLES
  \* ---- the non-streaming analyzeRepo of services/gemini.ts (SpecGen)
  nApiKey,       \* whether process.env.API_KEY is set
  nIsFallback,   \* the argument isFallback
  nPc,           \* "called" | "primary" | "delay" | "fallback" | "returned" | "threw"
  backendCalls,  \* history: the generateContent requests sent
  firstError,    \* the error of the primary attempt: <<>> or <<error>>
  nResult,       \* the Report analyzeRepo returned
  nThrown        \* the message of the error analyzeRepo threw

genVars == <<nApiKey, nIsFallback, nPc, backendCalls, firstError, nResult, nThrown>>

VARIABLES
  \* ---- the analyzeRepo that asks for a JSON response (SpecJson)
  jApiKey,   \* whether userApiKey is a non-empty string
  jText,     \* the text the backend is producing
  jSent,     \* how many characters of it the stream has yielded
  jChunks,   \* history: the number of chunks yielded
  jStream,   \* "none" | "open" | "ended" | "failed"
  jPc,       \* "called" | "iterating" | "returned" | "threw"
  jState     \* accumulatedText (acc) and the history of the call: JSON.parse
             \* calls (parses), onProgress calls (notified), errors thrown

jsonVars == <<jApiKey, jText, jSent, jChunks, jStream, jPc, jState>>

VARIABLES
  \* ---- App.tsx: every handleAnalyze call as a closure of its own (SpecRuns)
  runs,      \* one record for each call of handleAnalyze, in the order of the calls
  writer     \* the call whose setState wrote the state last, 0 before the first

runVars == <<runs, writer>>

vars == <<selVars, fetchVars, parseVars, streamVars, appVars, urlVars, promptVars, genVars,
          jsonVars, runVars>>

\* what the actions of one group leave alone
exceptSelect == <<fetchVars, parseVars, streamVars, appVars, urlVars, promptVars, genVars,
                 jsonVars, runVars>>
exceptFetch  == <<selVars, parseVars, streamVars, appVars, urlVars, promptVars, genVars,
                 jsonVars, runVars>>
exceptParse  == <<selVars, fetchVars, streamVars, appVars, urlVars, promptVars, genVars,
                 jsonVars, runVars>>
exceptStream == <<selVars, fetchVars, parseVars, appVars, urlVars, promptVars, genVars,
                 jsonVars, runVars>>
exceptApp    == <<selVars, fetchVars, parseVars, streamVars, urlVars, promptVars, genVars,
                 jsonVars, runVars>>
exceptUrl    == <<selVars, fetchVars, parseVars, streamVars, appVars, promptVars, genVars,
                 jsonVars, runVars>>
exceptPrompt == <<selVars, fetchVars, parseVars, streamVars, appVars, urlVars, genVars,
                 jsonVars, runVars>>
exceptGen    == <<selVars, fetchVars, parseVars, streamVars, appVars, urlVars, promptVars,
                 jsonVars, runVars>>
exceptRuns   == <<selVars, fetchVars, parseVars, streamVars, urlVars, promptVars, genVars,
                 jsonVars>>
exceptJson   == <<selVars, fetchVars, parseVars, streamVars, appVars, urlVars, promptVars,
                 genVars, runVars>>

\* ------------------------------------------------------------------------
\* String helpers (JavaScript String.prototype methods on char sequences)
\* ------------------------------------------------------------------------

UpperLetters == <<"A","B","C","D","E","F","G","H","I","J","K","L","M",
                  "N","O","P","Q","R","S","T","U","V","W","X","Y","Z">>
LowerLetters == <<"a","b","c","d","e","f","g","h","i","j","k","l","m",
                  "n","o","p","q","r","s","t","u","v","w","x","y","z">>

LowerChar(c) ==
  IF \E i \in 1..26 : UpperLetters[i] = c
  THEN LowerLetters[CHOOSE i \in 1..26 : UpperLetters[i] = c]
  ELSE c

toLowerCase(s) == [i \in 1..Len(s) |-> LowerChar(s[i])]

startsWith(s, p) == Len(s) >= Len(p) /\ SubSeq(s, 1, Len(p)) = p

endsWith(s, p) == Len(s) >= Len(p) /\ SubSeq(s, Len(s) - Len(p) + 1, Len(s)) = p

includes(s, sub) ==
  \E i \in 0..(Len(s) - Len(sub)) : SubSeq(s, i + 1, i + Len(sub)) = sub

\* Array.prototype.slice(0, n)
slice0(xs, n) == SubSeq(xs, 1, IF Len(xs) < n THEN Len(xs) ELSE n)

\* ------------------------------------------------------------------------
\* services/github.ts: selectImportantFiles
\* ------------------------------------------------------------------------

IMPORTANT_NAMES == {
  <<"p","a","c","k","a","g","e",".","j","s","o","n">>,
  <<"g","o",".","m","o","d">>,
  <<"c","a","r","g","o",".","t","o","m","l">>,
  <<"r","e","q","u","i","r","e","m","e","n","t","s",".","t","x","t">>,
  <<"p","o","m",".","x","m","l">>,
  <<"b","u","i","l","d",".","g","r","a","d","l","e">>,
  <<"d","o","c","k","e","r","f","i","l","e">>,
  <<"d","o","c","k","e","r","-","c","o","m","p","o","s","e",".","y","m","l">>,
  <<"n","e","x","t",".","c","o","n","f","i","g",".","j","s">>,
  <<"t","s","c","o","n","f","i","g",".","j","s","o","n">>,
  <<"v","i","t","e",".","c","o","n","f","i","g",".","t","s">>,
  <<"r","e","a","d","m","e",".","m","d">> }

\* the alternatives of /\.(ts|tsx|js|jsx|py|go|rs|java|c|cpp)$/
CodeExtensions == {
  <<"t","s">>, <<"t","s","x">>, <<"j","s">>, <<"j","s","x">>, <<"p","y">>,
  <<"g","o">>, <<"r","s">>, <<"j","a","v","a">>, <<"c">>, <<"c","p","p">> }

MatchesCodeExtension(lower) ==
  \E ext \in CodeExtensions : endsWith(lower, <<".">> \o ext)

ConfigLimit == 3
CodeLimit == 4
HardCap == 7

IsPriorityConfig(i) ==
  i.type = "file" /\ toLowerCase(i.name) \in IMPORTANT_NAMES

IsCodeEntryPointKeepsSpec(i) ==
  IF i.type # "file" THEN FALSE
  ELSE LET lower == toLowerCase(i.name) IN
       IF lower \in IMPORTANT_NAMES THEN FALSE
       ELSE /\ MatchesCodeExtension(lower)
            /\ ~includes(lower, <<".","t","e","s","t",".">>)

IsCodeEntryPoint(i) ==
  IF i.type # "file" THEN FALSE
  ELSE LET lower == toLowerCase(i.name) IN
       IF lower \in IMPORTANT_NAMES THEN FALSE
       ELSE /\ MatchesCodeExtension(lower)
            /\ ~includes(lower, <<".","t","e","s","t",".">>)
            /\ ~includes(lower, <<".","s","p","e","c",".">>)

MapSetAppend(m, k, v) == Append(m, <<k, v>>)

\* Map.prototype.set on an insertion-ordered map kept as a sequence of
\* <<key, value>> pairs: an existing key keeps its position and takes the
\* new value, a new key is appended.
MapSet(m, k, v) ==
  IF \E j \in 1..Len(m) : m[j][1] = k
  THEN [j \in 1..Len(m) |-> IF m[j][1] = k THEN <<k, v>> ELSE m[j]]
  ELSE Append(m, <<k, v>>)

RECURSIVE MapOfItems(_, _)
MapOfItems(m, xs) ==
  IF xs = <<>> THEN m
  ELSE MapOfItems(MapSet(m, Head(xs).path, Head(xs)), Tail(xs))

MapValues(m) == [j \in 1..Len(m) |-> m[j][2]]

Tier1NoCap(items) == SelectSeq(items, IsPriorityConfig)

\* items.filter(...).slice(0, 3)
Tier1(items) == slice0(SelectSeq(items, IsPriorityConfig), ConfigLimit)

\* items.filter(...).slice(0, 4)
Tier2(items) == slice0(SelectSeq(items, IsCodeEntryPoint), CodeLimit)

selectImportantFiles(items) ==
  LET configs   == Tier1(items)
      codeFiles == Tier2(items)
      combined  == configs \o codeFiles
      unique    == MapOfItems(<<>>, combined)
  IN slice0(MapValues(unique), HardCap)

\* ------------------------------------------------------------------------
\* Inputs of selectImportantFiles: the sub-listings of two master listings
\* ------------------------------------------------------------------------

Item(n, p, t, u, s) == [name |-> n, path |-> p, type |-> t, url |-> u, size |-> s]

N_package  == <<"p","a","c","k","a","g","e",".","j","s","o","n">>
N_README   == <<"R","E","A","D","M","E",".","m","d">>
N_Docker   == <<"D","o","c","k","e","r","f","i","l","e">>
N_vite     == <<"v","i","t","e",".","c","o","n","f","i","g",".","t","s">>
N_index    == <<"i","n","d","e","x",".","t","s">>
N_App      == <<"A","p","p",".","t","s","x">>
N_main     == <<"m","a","i","n",".","p","y">>
N_server   == <<"s","e","r","v","e","r",".","g","o">>
N_util     == <<"u","t","i","l",".","J","S">>
N_test     == <<"i","n","d","e","x",".","t","e","s","t",".","t","s">>
N_dts      == <<"t","y","p","e","s",".","d",".","t","s">>
N_src      == <<"s","r","c">>
N_license  == <<"L","I","C","E","N","S","E">>
N_spec     == <<"A","p","p",".","S","p","e","c",".","t","s","x">>

MasterListing == <<
  Item(N_README,  "README.md",         "file", "u1",  10),
  Item(N_src,     "src",               "dir",  "u2",  0),
  Item(N_package, "package.json",      "file", "u3",  20),
  Item(N_index,   "src/index.ts",      "file", "u4",  30),
  Item(N_test,    "src/index.test.ts", "file", "u5",  40),
  Item(N_Docker,  "Dockerfile",        "file", "u6",  50),
  Item(N_App,     "src/App.tsx",       "file", "u7",  60),
  Item(N_vite,    "vite.config.ts",    "file", "u8",  70),
  Item(N_main,    "main.py",           "file", "u9",  80),
  Item(N_package, "package.json",      "file", "u10", 21),
  Item(N_server,  "server.go",         "file", "u11", 90),
  Item(N_util,    "util.JS",           "file", "u12", 100),
  Item(N_index,   "src/index.ts",      "file", "u13", 31),
  Item(N_dts,     "types.d.ts",        "file", "u14", 110) >>

MaxItems == 10

Reverse(xs) == [j \in 1..Len(xs) |-> xs[Len(xs) + 1 - j]]

RECURSIVE Pick(_, _, _)
\* the sub-sequence of xs at the positions in S, from position j on
Pick(xs, S, j) ==
  IF j > Len(xs) THEN <<>>
  ELSE (IF j \in S THEN <<xs[j]>> ELSE <<>>) \o Pick(xs, S, j + 1)

\* a listing in which a source file carries the path of a config file
ClashListing == <<
  Item(N_package, "package.json", "file", "u20", 22),
  Item(N_README,  "README.md",    "file", "u21", 11),
  Item(N_index,   "package.json", "file", "u22", 32) >>

\* a listing with a directory, a test file and a spec file
TestListing == <<
  Item(N_src,     "src",               "dir",  "u30", 0),
  Item(N_test,    "src/index.test.ts", "file", "u31", 41),
  Item(N_spec,    "src/App.Spec.tsx",  "file", "u32", 61),
  Item(N_index,   "src/index.ts",      "file", "u33", 33),
  Item(N_package, "package.json",      "file", "u34", 23) >>

Listings ==
  { Pick(m, S, 1) :
      m \in {MasterListing, Reverse(MasterListing)},
      S \in { T \in SUBSET (1..Len(MasterListing)) : Cardinality(T) <= MaxItems } }
  \cup { Pick(m, S, 1) :
      m \in {ClashListing, Reverse(ClashListing)}, S \in SUBSET (1..Len(ClashListing)) }
  \cup { Pick(m, S, 1) :
      m \in {TestListing, Reverse(TestListing)}, S \in SUBSET (1..Len(TestListing)) }

\* ------------------------------------------------------------------------
\* services/github.ts: fetchDirectory, fetchFileContents, getRepoContext
\* ------------------------------------------------------------------------

\* the name of a listing entry that has none (item.name is undefined)
UndefinedName == <<"undefined">>

\* null in the array of per-file results
Null == [path |-> "null", content |-> <<>>]

NoContext == [kind |-> "none"]

\* What the source-hosting API serves: the root listing and the listing of
\* the one source folder.
Remotes == {
  [ root |-> << Item(N_README,  "README.md",    "file", "f1", 10),
                Item(N_src,     "src",          "dir",  "d1", 0),
                Item(N_package, "package.json", "file", "f2", 20) >>,
    sub  |-> << Item(N_index,   "src/index.ts",      "file", "f3", 30),
                Item(N_test,    "src/index.test.ts", "file", "f4", 40) >> ],
  [ root |-> << Item(N_main,    "main.py", "file", "f5", 80),
                Item(N_license, "LICENSE", "file", "f6", 5) >>,
    sub  |-> << >> ] }

\* a listing entry without a name, as data.map copies it (name: undefined)
NamelessFile == Item(UndefinedName, "odd", "file", "f7", 1)

DirStatuses == {200, 404, 403, 429, 500}
DirBodies == {"array", "malformed", "notArray", "badJson"}

SOURCE_FOLDERS == { <<"s","r","c">>, <<"a","p","p">>, <<"l","i","b">>, <<"p","k","g">> }

Return(v) == [kind |-> "return", value |-> v]
Throw(m) == [kind |-> "throw", message |-> m]

\* fetchDirectory, lines 61-65: the catch clause
fetchDirectoryCatch(message) ==
  IF message = "RATE_LIMIT" THEN Throw(message) ELSE Return(<<>>)

fetchDirectoryNotOkOnly403(status) ==
  IF status = 404 THEN Return(<<>>)
  ELSE IF status = 403 THEN fetchDirectoryCatch("RATE_LIMIT")
  ELSE fetchDirectoryCatch("GitHub API status")

\* fetchDirectory, lines 44-48: a response that is not ok
fetchDirectoryNotOk(status) ==
  IF status = 404 THEN Return(<<>>)
  ELSE IF status = 403 \/ status = 429 THEN fetchDirectoryCatch("RATE_LIMIT")
  ELSE fetchDirectoryCatch("GitHub API status")

\* fetchDirectory, lines 50-60: the body of an ok response
fetchDirectoryBody(body, served) ==
  CASE body = "array"     -> Return(served)
    [] body = "malformed" -> Return(Append(served, NamelessFile))
    [] body = "notArray"  -> Return(<<>>)
    [] body = "badJson"   -> fetchDirectoryCatch("Unexpected token")

\* getRepoContext, lines 139-141
IsSourceFolder(i) == i.type = "dir" /\ toLowerCase(i.name) \in SOURCE_FOLDERS

HasSourceFolder(items) == \E j \in 1..Len(items) : IsSourceFolder(items[j])

\* rootItems.find(...): the first entry that is a source folder
FindSourceFolder(items) ==
  items[CHOOSE j \in 1..Len(items) :
          /\ IsSourceFolder(items[j])
          /\ \A k \in 1..(j - 1) : ~IsSourceFolder(items[k])]

\* i.name.toLowerCase() on an entry whose name is undefined throws a TypeError
\* (line 77, reached for every entry of type 'file')
SelectThrows(items) ==
  \E j \in 1..Len(items) : items[j].type = "file" /\ items[j].name = UndefinedName

FallbackKeepsRootPaths ==
  [fileTree |-> [j \in 1..Len(rootItems) |-> rootItems[j].path],
   files |-> <<>>, isFallback |-> TRUE]

\* getRepoContext, lines 165-171: the catch clause
FallbackContext == [fileTree |-> <<>>, files |-> <<>>, isFallback |-> TRUE]

getRepoContextCatch(message) ==
  IF message = "RATE_LIMIT" THEN Return(FallbackContext) ELSE Throw(message)

\* ---- file requests

FileStatuses == {200, 404, 403, 429, 500}

B64_hi == <<"a","G","k","=">>
B64_hi_wrapped == <<"a","G","\n","k","=","\n">>

\* the JSON bodies a file-content call can carry
\* json: the body parses as JSON; hasContent: it has a content field
FileBodies == {
  [json |-> TRUE,  hasContent |-> TRUE,  content |-> B64_hi_wrapped, encoding |-> "base64"],
  [json |-> TRUE,  hasContent |-> TRUE,  content |-> <<>>,           encoding |-> "base64"],
  [json |-> TRUE,  hasContent |-> TRUE,  content |-> B64_hi,         encoding |-> "none"],
  [json |-> TRUE,  hasContent |-> FALSE, content |-> <<>>,           encoding |-> "base64"],
  [json |-> TRUE,  hasContent |-> TRUE,  content |-> <<"!","!">>,    encoding |-> "base64"],
  [json |-> FALSE, hasContent |-> FALSE, content |-> <<>>,           encoding |-> "none"] }

\* data.content.replace(/\n/g, '')
RemoveNewlines(s) == SelectSeq(s, LAMBDA c : c # "\n")

\* atob on the base64 texts of the model; any other text is not valid base64
\* and makes atob throw
AtobTable == << <<B64_hi, <<"h","i">> >>, << <<>>, <<>> >> >>

AtobDefined(s) == \E j \in 1..Len(AtobTable) : AtobTable[j][1] = s

atob(s) == AtobTable[CHOOSE j \in 1..Len(AtobTable) : AtobTable[j][1] = s][2]

\* JavaScript truthiness of data.content: undefined and '' are falsy
TruthyContent(data) == data.hasContent /\ data.content # <<>>

\* fetchFileContents, lines 114-126: the body of an ok response
fileFromBody(file, data) ==
  IF ~data.json THEN Null
  ELSE IF TruthyContent(data) /\ data.encoding = "base64"
       THEN LET cleanBase64 == RemoveNewlines(data.content) IN
            IF AtobDefined(cleanBase64)
            THEN [path |-> file.path, content |-> atob(cleanBase64)]
            ELSE Null
       ELSE Null

\* fetchFileContents, line 113
fileFromStatus(status) == Null

AbortTargetsShared(i, reqs) == 1..Len(reqs)

\* the requests a firing of the timer of request i aborts (lines 105-106:
\* one AbortController per file)
AbortTargets(i, reqs) == {i}

NoBody == [json |-> FALSE, hasContent |-> FALSE, content |-> <<>>, encoding |-> "unread"]

\* status and body record what the API sent for the request (0: no answer)
NewRequest(file) ==
  [file |-> file, phase |-> "pending", timer |-> "armed",
   result |-> Null, cause |-> "none", status |-> 0, body |-> NoBody]

\* results.filter(f => f !== null), in the order of the requests
CollectFiles(reqs) ==
  LET all == [j \in 1..Len(reqs) |-> reqs[j].result]
  IN SelectSeq(all, LAMBDA f : f # Null)

SelectIdle ==
  /\ listing = <<>>
  /\ selected = <<>>
  /\ reselected = <<>>
  /\ selPc = "off"

UrlIdle ==
  /\ uInput = <<>>
  /\ uResult = <<>>
  /\ uPc = "off"

RunsIdle ==
  /\ runs = <<>>
  /\ writer = 0

JsonIdle ==
  /\ jApiKey = FALSE
  /\ jText = <<>>
  /\ jSent = 0
  /\ jChunks = 0
  /\ jStream = "off"
  /\ jPc = "off"
  /\ jState = <<>>

GenIdle ==
  /\ nApiKey = FALSE
  /\ nIsFallback = FALSE
  /\ nPc = "off"
  /\ backendCalls = <<>>
  /\ firstError = <<>>
  /\ nResult = <<>>
  /\ nThrown = ""

PromptIdle ==
  /\ qRepoName = ""
  /\ qFileTree = <<>>
  /\ qFiles = <<>>
  /\ qDeepReasoning = FALSE
  /\ qIsFallback = FALSE
  /\ prompt = <<>>
  /\ qPc = "off"

AppIdle ==
  /\ state = <<>>
  /\ currentStep = 0
  /\ url = "off"
  /\ geminiApiKey = FALSE
  /\ isSettingsOpen = FALSE
  /\ hPc = "off"
  /\ isFallback = FALSE
  /\ attempts = 0
  /\ delivered = 0
  /\ outcomes = <<>>
  /\ trail = <<>>

ParseIdle ==
  /\ pText = <<>>
  /\ pVariant = "none"
  /\ pReport = <<>>
  /\ pPc = "off"

StreamIdle ==
  /\ sText = <<>>
  /\ sFallback = FALSE
  /\ genLeft = <<>>
  /\ wire = <<>>
  /\ streamState = "off"
  /\ aPc = "off"
  /\ accumulatedText = <<>>
  /\ decoderPending = <<>>
  /\ received = <<>>
  /\ onProgress = FALSE
  /\ calls = <<>>
  /\ result = <<>>

FetchIdle ==
  /\ remote = <<>>
  /\ gPc = "off"
  /\ dirPhase = "none"
  /\ rootItems = <<>>
  /\ fileTree = <<>>
  /\ fileReqs = <<>>
  /\ context = NoContext
  /\ answered = {}

InitFetch ==
  /\ remote \in Remotes
  /\ gPc = "idle"
  /\ dirPhase = "none"
  /\ rootItems = <<>>
  /\ fileTree = <<>>
  /\ fileReqs = <<>>
  /\ context = NoContext
  /\ answered = {}
  /\ SelectIdle
  /\ ParseIdle
  /\ StreamIdle
  /\ AppIdle
  /\ UrlIdle
  /\ PromptIdle
  /\ GenIdle
  /\ JsonIdle
  /\ RunsIdle

\* getRepoContext is called: the root listing request is sent (line 136)
GetRepoContext ==
  /\ gPc = "idle"
  /\ gPc' = "root"
  /\ dirPhase' = "pending"
  /\ UNCHANGED <<remote, rootItems, fileTree, fileReqs, context, answered>>
  /\ UNCHANGED <<exceptFetch>>

\* getRepoContext ends with the outcome r of its catch clause or its return
Finish(r) ==
  /\ gPc' = IF r.kind = "return" THEN "returned" ELSE "threw"
  /\ context' = r
  /\ dirPhase' = "none"

\* lines 150-157: the listings are combined, the files selected and requested
StartFiles(allItems) ==
  IF SelectThrows(allItems)
  THEN /\ Finish(getRepoContextCatch("TypeError"))
       /\ UNCHANGED <<rootItems, fileTree, fileReqs>>
  ELSE /\ fileTree' = [j \in 1..Len(allItems) |-> allItems[j].path]
       /\ fileReqs' = LET sel == selectImportantFiles(allItems)
                      IN [j \in 1..Len(sel) |-> NewRequest(sel[j])]
       /\ gPc' = "files"
       /\ dirPhase' = "none"
       /\ UNCHANGED <<rootItems, context>>

\* fetchDirectory has settled with r: getRepoContext goes on (lines 136-157)
AfterDirectory(r) ==
  IF r.kind = "throw"
  THEN /\ Finish(getRepoContextCatch(r.message))
       /\ UNCHANGED <<rootItems, fileTree, fileReqs>>
  ELSE IF gPc = "root"
       THEN IF HasSourceFolder(r.value)
            THEN /\ rootItems' = r.value
                 /\ gPc' = "src"
                 /\ dirPhase' = "pending"
                 /\ UNCHANGED <<fileTree, fileReqs, context>>
            ELSE StartFiles(r.value)
       ELSE StartFiles(rootItems \o r.value)

Served == IF gPc = "root" THEN remote.root ELSE remote.sub

\* the API answers a directory listing request with a status line
DirRespond(status) ==
  /\ gPc \in {"root", "src"}
  /\ dirPhase = "pending"
  /\ answered' = answered \cup {<<gPc, status, "none">>}
  /\ IF status = 200
     THEN /\ dirPhase' = "body"
          /\ UNCHANGED <<gPc, rootItems, fileTree, fileReqs, context>>
     ELSE AfterDirectory(fetchDirectoryNotOk(status))
  /\ UNCHANGED <<remote, exceptFetch>>

\* the body of an ok directory response arrives (res.json(), line 50)
DirBody(body) ==
  /\ gPc \in {"root", "src"}
  /\ dirPhase = "body"
  /\ AfterDirectory(fetchDirectoryBody(body, Served))
  /\ UNCHANGED <<remote, answered, exceptFetch>>

\* the 3 s timer of the directory request fires: fetch rejects (AbortError)
DirTimeout ==
  /\ gPc \in {"root", "src"}
  /\ dirPhase = "pending"
  /\ answered' = answered \cup {<<gPc, 0, "timeout">>}
  /\ AfterDirectory(fetchDirectoryCatch("The operation was aborted"))
  /\ UNCHANGED <<remote, exceptFetch>>

\* the directory request fails in the network: fetch rejects (TypeError)
DirNetworkError ==
  /\ gPc \in {"root", "src"}
  /\ dirPhase = "pending"
  /\ answered' = answered \cup {<<gPc, 0, "network">>}
  /\ AfterDirectory(fetchDirectoryCatch("Failed to fetch"))
  /\ UNCHANGED <<remote, exceptFetch>>

\* the API answers the content request of file i with a status line
FileRespond(i, status) ==
  /\ gPc = "files"
  /\ i \in 1..Len(fileReqs)
  /\ fileReqs[i].phase = "pending"
  /\ answered' = answered \cup {<<"file", status, "none">>}
  /\ IF status = 200
     THEN fileReqs' = [fileReqs EXCEPT ![i].phase = "body", ![i].timer = "cleared",
                                       ![i].status = status]
     ELSE fileReqs' = [fileReqs EXCEPT ![i].phase = "done", ![i].timer = "cleared",
                                       ![i].status = status, ![i].cause = "status",
                                       ![i].result = fileFromStatus(status)]
  /\ UNCHANGED <<remote, gPc, dirPhase, rootItems, fileTree, context>>
  /\ UNCHANGED <<exceptFetch>>

\* the body of an ok content response arrives (res.json(), line 114)
FileBody(i, data) ==
  /\ gPc = "files"
  /\ i \in 1..Len(fileReqs)
  /\ fileReqs[i].phase = "body"
  /\ fileReqs' = [fileReqs EXCEPT ![i].phase = "done", ![i].body = data,
                                  ![i].cause = "body",
                                  ![i].result = fileFromBody(fileReqs[i].file, data)]
  /\ UNCHANGED <<remote, gPc, dirPhase, rootItems, fileTree, context, answered>>
  /\ UNCHANGED <<exceptFetch>>

\* the 3.5 s timer of file i fires: its controller aborts (line 106)
FileTimeout(i) ==
  /\ gPc = "files"
  /\ i \in 1..Len(fileReqs)
  /\ fileReqs[i].phase = "pending"
  /\ fileReqs[i].timer = "armed"
  /\ fileReqs' = [j \in 1..Len(fileReqs) |->
       IF j \in AbortTargets(i, fileReqs) /\ fileReqs[j].phase = "pending"
       THEN [fileReqs[j] EXCEPT !.phase = "done", !.result = Null, !.cause = "abort",
                                !.timer = IF j = i THEN "fired" ELSE @]
       ELSE fileReqs[j]]
  /\ UNCHANGED <<remote, gPc, dirPhase, rootItems, fileTree, context, answered>>
  /\ UNCHANGED <<exceptFetch>>

\* the content request of file i fails in the network (the catch clause of
\* line 124 does not clear the timer; a later firing finds the request settled)
FileNetworkError(i) ==
  /\ gPc = "files"
  /\ i \in 1..Len(fileReqs)
  /\ fileReqs[i].phase = "pending"
  /\ fileReqs' = [fileReqs EXCEPT ![i].phase = "done",
                                  ![i].cause = "network", ![i].result = Null]
  /\ UNCHANGED <<remote, gPc, dirPhase, rootItems, fileTree, context, answered>>
  /\ UNCHANGED <<exceptFetch>>

\* Promise.all settles (line 129) and getRepoContext returns (lines 159-163)
FilesAllDone ==
  /\ gPc = "files"
  /\ \A j \in 1..Len(fileReqs) : fileReqs[j].phase = "done"
  /\ Finish(Return([fileTree |-> fileTree, files |-> CollectFiles(fileReqs),
                    isFallback |-> FALSE]))
  /\ UNCHANGED <<remote, rootItems, fileTree, fileReqs, answered>>
  /\ UNCHANGED <<exceptFetch>>

MaxFileReqs == 3

NextFetch ==
  \/ GetRepoContext
  \/ \E status \in DirStatuses : DirRespond(status)
  \/ \E body \in DirBodies : DirBody(body)
  \/ DirTimeout
  \/ DirNetworkError
  \/ \E i \in 1..MaxFileReqs, status \in FileStatuses : FileRespond(i, status)
  \/ \E i \in 1..MaxFileReqs, data \in FileBodies : FileBody(i, data)
  \/ \E i \in 1..MaxFileReqs : FileTimeout(i)
  \/ \E i \in 1..MaxFileReqs : FileNetworkError(i)
  \/ FilesAllDone

SpecFetch == InitFetch /\ [][NextFetch]_vars

\* What the event loop schedules: the call itself, a timer that stays armed
\* fires (lines 39 and 106), and a settled Promise.all is resumed (line 129).
\* Whether and when the API sends a status line or a body is the network's
\* choice: those steps get no fairness.
FairFetch ==
  /\ WF_vars(GetRepoContext)
  /\ WF_vars(DirTimeout)
  /\ \A i \in 1..MaxFileReqs : WF_vars(FileTimeout(i))
  /\ WF_vars(FilesAllDone)

SpecFetchFair == SpecFetch /\ FairFetch

\* ------------------------------------------------------------------------
\* services/gemini.ts: parseAnalysisResult (delimited-sections text)
\* ------------------------------------------------------------------------

\* the characters String.prototype.trim removes and \s matches
WhiteSpace == {" ", "\t", "\r", "\n"}

\* String.prototype.trim: from the first to the last character that is no
\* white space
trim(s) ==
  LET keep == {i \in 1..Len(s) : s[i] \notin WhiteSpace} IN
  IF keep = {} THEN <<>>
  ELSE SubSeq(s, CHOOSE i \in keep : \A j \in keep : i <= j,
                 CHOOSE i \in keep : \A j \in keep : j <= i)

\* text.split('\n'): line k lies between the (k-1)th and the kth newline
split(text) ==
  LET nl == {i \in 1..Len(text) : text[i] = "\n"}
      nth(k) == IF k = 0 THEN 0
                ELSE IF k > Cardinality(nl) THEN Len(text) + 1
                ELSE CHOOSE i \in nl : Cardinality({j \in nl : j < i}) = k - 1
  IN [k \in 1..(Cardinality(nl) + 1) |-> SubSeq(text, nth(k - 1) + 1, nth(k) - 1)]

Marker == <<"=","=","=">>

RECURSIVE RemoveMarkers(_)
\* trimmed.replace(/===/g, '')
RemoveMarkers(s) ==
  IF s = <<>> THEN <<>>
  ELSE IF startsWith(s, Marker) THEN RemoveMarkers(SubSeq(s, 4, Len(s)))
  ELSE <<Head(s)>> \o RemoveMarkers(Tail(s))

BulletChars == {"-", "BULLET", "*"}

\* trimmed.replace(/^[-•*]\s/, '')
StripBullet(s) ==
  IF Len(s) >= 2 /\ s[1] \in BulletChars /\ s[2] \in WhiteSpace
  THEN SubSeq(s, 3, Len(s))
  ELSE s

\* enum AnalysisSection
S_Overview     == <<"P","R","O","J","E","C","T"," ","O","V","E","R","V","I","E","W">>
S_Architecture == <<"A","R","C","H","I","T","E","C","T","U","R","E"," ","S","U","M","M","A","R","Y">>
S_Components   == <<"C","O","M","P","O","N","E","N","T"," ","B","R","E","A","K","D","O","W","N">>
S_DataFlow     == <<"D","A","T","A"," ","&"," ","C","O","N","T","R","O","L"," ","F","L","O","W">>
S_Quality      == <<"C","O","D","E"," ","Q","U","A","L","I","T","Y"," ","&"," ","R","I","S","K","S">>
S_Improvements == <<"I","M","P","R","O","V","E","M","E","N","T"," ","S","U","G","G","E","S","T","I","O","N","S">>
S_Meta         == <<"M","E","T","A"," ","A","N","A","L","Y","S","I","S">>
S_Diagram      == <<"A","R","C","H","I","T","E","C","T","U","R","E"," ","D","I","A","G","R","A","M">>

\* let currentSection: string | null = null
NoSection == <<"null">>

ParserStart == [sections |-> << >>, currentSection |-> NoSection, diagram |-> <<>>]

\* sections[key] = items, sections being a map from section name to items
SetSection(sections, key, items) ==
  [k \in (DOMAIN sections) \cup {key} |-> IF k = key THEN items ELSE sections[k]]

\* the loop body with a header that keeps the items its section already has
LineStepKeepsItems(st, line, keepEmpty) ==
  LET trimmed == trim(line) IN
  IF startsWith(trimmed, Marker) /\ endsWith(trimmed, Marker)
  THEN LET name == trim(RemoveMarkers(trimmed)) IN
       [st EXCEPT !.currentSection = name,
                  !.sections = SetSection(st.sections, name,
                                          IF name \in DOMAIN st.sections
                                            THEN st.sections[name] ELSE <<>>)]
  ELSE IF st.currentSection = S_Diagram
  THEN [st EXCEPT !.diagram = st.diagram \o line \o <<"\n">>]
  ELSE IF st.currentSection # NoSection /\ st.currentSection # <<>> /\ trimmed # <<>>
  THEN LET cleanLine == StripBullet(trimmed) IN
       IF keepEmpty \/ cleanLine # <<>>
       THEN [st EXCEPT !.sections =
               SetSection(st.sections, st.currentSection,
                          Append(st.sections[st.currentSection], cleanLine))]
       ELSE st
  ELSE st

\* one iteration of the loop over the lines (part_003, lines 207-234);
\* keepEmpty is FALSE where the cleaned line is pushed only if it is not empty
LineStep(st, line, keepEmpty) ==
  LET trimmed == trim(line) IN
  IF startsWith(trimmed, Marker) /\ endsWith(trimmed, Marker)
  THEN LET name == trim(RemoveMarkers(trimmed)) IN
       [st EXCEPT !.currentSection = name,
                  !.sections = SetSection(st.sections, name, <<>>)]
  ELSE IF st.currentSection = S_Diagram
  THEN [st EXCEPT !.diagram = st.diagram \o line \o <<"\n">>]
  ELSE IF st.currentSection # NoSection /\ st.currentSection # <<>> /\ trimmed # <<>>
  THEN LET cleanLine == StripBullet(trimmed) IN
       IF keepEmpty \/ cleanLine # <<>>
       THEN [st EXCEPT !.sections =
               SetSection(st.sections, st.currentSection,
                          Append(st.sections[st.currentSection], cleanLine))]
       ELSE st
  ELSE st

RECURSIVE ScanLines(_, _, _)
ScanLines(st, lines, keepEmpty) ==
  IF lines = <<>> THEN st
  ELSE ScanLines(LineStep(st, Head(lines), keepEmpty), Tail(lines), keepEmpty)

\* sections[key] || []
SectionItems(sections, key) ==
  IF key \in DOMAIN sections THEN sections[key] ELSE <<>>

getSection(sections, key) == [title |-> key, items |-> SectionItems(sections, key)]

Digits == <<"0","1","2","3","4","5","6","7","8","9">>

IsDigit(c) == \E d \in 1..10 : Digits[d] = c

DigitValue(c) == (CHOOSE d \in 1..10 : Digits[d] = c) - 1

RECURSIVE DigitRun(_)
\* the longest run of digits at the start of s
DigitRun(s) ==
  IF s # <<>> /\ IsDigit(Head(s)) THEN <<Head(s)>> \o DigitRun(Tail(s)) ELSE <<>>

RECURSIVE FirstDigits(_)
\* l.match(/\d+/)?.[0], the empty sequence when there is no match
FirstDigits(s) ==
  IF s = <<>> THEN <<>>
  ELSE IF IsDigit(Head(s)) THEN DigitRun(s)
  ELSE FirstDigits(Tail(s))

RECURSIVE DecimalValue(_, _)
DecimalValue(ds, acc) ==
  IF ds = <<>> THEN acc ELSE DecimalValue(Tail(ds), 10 * acc + DigitValue(Head(ds)))

\* parseInt(l.match(/\d+/)?.[0] || '5')
parseScore(l) ==
  IF FirstDigits(l) = <<>> THEN 5 ELSE DecimalValue(FirstDigits(l), 0)

W_Score           == <<"S","c","o","r","e">>
W_Complexity      == <<"C","o","m","p","l","e","x","i","t","y">>
W_Maintainability == <<"M","a","i","n","t","a","i","n","a","b","i","l","i","t","y">>
W_beginner        == <<"b","e","g","i","n","n","e","r">>
W_advanced        == <<"a","d","v","a","n","c","e","d">>
W_low             == <<"l","o","w">>
W_high            == <<"h","i","g","h">>

DefaultMetaUnset == [qualityScore |-> 0, complexity |-> "", maintainability |-> ""]

\* the initial value of metaAnalysis
DefaultMeta == [qualityScore |-> 5, complexity |-> "Intermediate", maintainability |-> "Medium"]

\* the body of metaLines.forEach with the level words matched in the case
\* they are written in
MetaStepCaseSensitive(m, l) ==
  LET m1 == IF includes(l, W_Score) THEN [m EXCEPT !.qualityScore = parseScore(l)] ELSE m
      m2 == IF includes(l, W_Complexity) /\ includes(l, W_beginner)
            THEN [m1 EXCEPT !.complexity = "Beginner"] ELSE m1
      m3 == IF includes(l, W_Complexity) /\ includes(l, W_advanced)
            THEN [m2 EXCEPT !.complexity = "Advanced"] ELSE m2
      m4 == IF includes(l, W_Maintainability) /\ includes(l, W_low)
            THEN [m3 EXCEPT !.maintainability = "Low"] ELSE m3
      m5 == IF includes(l, W_Maintainability) /\ includes(l, W_high)
            THEN [m4 EXCEPT !.maintainability = "High"] ELSE m4
  IN m5

\* the body of metaLines.forEach (lines 250-260)
MetaStep(m, l) ==
  LET lower == toLowerCase(l)
      m1 == IF includes(l, W_Score) THEN [m EXCEPT !.qualityScore = parseScore(l)] ELSE m
      m2 == IF includes(l, W_Complexity) /\ includes(lower, W_beginner)
            THEN [m1 EXCEPT !.complexity = "Beginner"] ELSE m1
      m3 == IF includes(l, W_Complexity) /\ includes(lower, W_advanced)
            THEN [m2 EXCEPT !.complexity = "Advanced"] ELSE m2
      m4 == IF includes(l, W_Maintainability) /\ includes(lower, W_low)
            THEN [m3 EXCEPT !.maintainability = "Low"] ELSE m3
      m5 == IF includes(l, W_Maintainability) /\ includes(lower, W_high)
            THEN [m4 EXCEPT !.maintainability = "High"] ELSE m4
  IN m5

RECURSIVE ScanMeta(_, _)
ScanMeta(m, ls) == IF ls = <<>> THEN m ELSE ScanMeta(MetaStep(m, Head(ls)), Tail(ls))

BuildReport(st) ==
  [ projectOverview        |-> getSection(st.sections, S_Overview),
    architectureSummary    |-> getSection(st.sections, S_Architecture),
    componentBreakdown     |-> getSection(st.sections, S_Components),
    dataControlFlow        |-> getSection(st.sections, S_DataFlow),
    codeQualityRisks       |-> getSection(st.sections, S_Quality),
    improvementSuggestions |-> getSection(st.sections, S_Improvements),
    metaAnalysis           |-> ScanMeta(DefaultMeta, SectionItems(st.sections, S_Meta)),
    architectureDiagram    |-> trim(st.diagram) ]

\* parseAnalysisResult of services/gemini.ts (lines 239-302)
parseAnalysisResultV1(text) == BuildReport(ScanLines(ParserStart, split(text), TRUE))

\* parseAnalysisResult of the streaming analyzeRepo (part_003, lines 200-272)
parseAnalysisResult(text) == BuildReport(ScanLines(ParserStart, split(text), FALSE))

\* ------------------------------------------------------------------------
\* parseAnalysisResult applied to texts
\* ------------------------------------------------------------------------

\* lines a generated text is made of: section headers, list items with and
\* without a bullet, meta lines, a diagram line, an empty line
H_Overview        == <<"=","=","="," ","P","R","O","J","E","C","T"," ","O","V","E","R","V","I","E","W"," ","=","=","=">>
H_Meta            == <<"=","=","="," ","M","E","T","A"," ","A","N","A","L","Y","S","I","S"," ","=","=","=">>
H_Diagram         == <<"=","=","="," ","A","R","C","H","I","T","E","C","T","U","R","E"," ","D","I","A","G","R","A","M"," ","=","=","=">>
H_Empty           == <<"=","=","=","=","=","=">>
L_Item            == <<"-"," ","D","o","e","s"," ","X">>
L_Bullet          == <<" "," ","BULLET"," ","Y">>
L_Double          == <<"-"," ","-"," ","z">>
L_Score           == <<"C","o","d","e"," ","Q","u","a","l","i","t","y"," ","S","c","o","r","e",":"," ","8","/","1","0">>
L_ScoreNoDigit    == <<"S","c","o","r","e">>
L_Complexity      == <<"C","o","m","p","l","e","x","i","t","y",":"," ","A","D","V","A","N","C","E","D">>
L_Maintainability == <<"*"," ","M","a","i","n","t","a","i","n","a","b","i","l","i","t","y",":"," ","L","o","w">>
L_Diag            == <<" "," ","+","-","+">>
L_Blank           == <<>>
L_TwoSpaces       == <<"-"," "," ","w">>
L_ScoreBig        == <<"S","c","o","r","e",":"," ","4","2">>
L_ScoreZero       == <<"S","c","o","r","e",":"," ","0">>
L_Plain           == <<"O","t","h","e","r">>

LinePool == {H_Overview, H_Meta, H_Diagram, L_Item, L_Bullet, L_Score,
             L_Complexity, L_Diag, L_Blank, L_Plain}

MaxLines == 3

RECURSIVE Join(_)
\* the lines joined by newlines
Join(ls) ==
  IF Len(ls) = 0 THEN <<>>
  ELSE IF Len(ls) = 1 THEN ls[1]
  ELSE ls[1] \o <<"\n">> \o Join(Tail(ls))

\* complete texts as the generation backend produces them
T_Overview  == <<"=","=","="," ","P","R","O","J","E","C","T"," ","O","V","E","R","V","I","E","W"," ","=","=","=","\n","BULLET"," ","Y","\n","-"," ","D","o","e","s"," ","X">>
T_Meta      == <<"=","=","="," ","M","E","T","A"," ","A","N","A","L","Y","S","I","S"," ","=","=","=","\n","S","c","o","r","e",":"," ","8","\n">>
T_Diagram   == <<"=","=","="," ","A","R","C","H","I","T","E","C","T","U","R","E"," ","D","I","A","G","R","A","M"," ","=","=","=","\n"," ","+","-","+","\n","\n"," ","|","\n">>
T_Mixed     == <<"BULLET","\n","=","=","="," ","M","E","T","A"," ","A","N","A","L","Y","S","I","S"," ","=","=","=","\n","C","o","m","p","l","e","x","i","t","y",":"," ","a","d","v","a","n","c","e","d"," ","BULLET">>
T_Empty     == <<>>

StreamTexts == {T_Overview, T_Meta, T_Diagram, T_Mixed, T_Empty}

\* texts with the rarer lines: a header without a name, a doubled bullet, a
\* Score line without digits, a Maintainability line, a bullet followed by
\* two spaces, Score lines with 42 and with 0, a header that occurs twice
RareTexts ==
  {Join(<<H_Empty, L_Item>>), Join(<<H_Overview, L_Double>>),
   Join(<<H_Meta, L_ScoreNoDigit>>), Join(<<H_Meta, L_Maintainability, L_Score>>),
   Join(<<H_Overview, L_TwoSpaces>>), Join(<<H_Meta, L_ScoreBig>>),
   Join(<<H_Meta, L_ScoreZero>>),
   Join(<<H_Overview, L_Item, H_Overview, L_Plain>>),
   Join(<<L_Plain, H_Overview, L_Item, H_Meta, L_Score, H_Overview, L_Bullet, L_Blank, L_Plain>>)}

\* every text of up to MaxLines lines of the pool, the rarer and the complete
\* texts
ParseTexts ==
  {Join(ls) : ls \in UNION {[1..n -> LinePool] : n \in 1..MaxLines}}
    \cup RareTexts \cup StreamTexts

InitParse ==
  /\ pText \in ParseTexts
  /\ pVariant \in {"gemini.ts", "streaming"}
  /\ pReport = <<>>
  /\ pPc = "input"
  /\ SelectIdle
  /\ FetchIdle
  /\ StreamIdle
  /\ AppIdle
  /\ UrlIdle
  /\ PromptIdle
  /\ GenIdle
  /\ JsonIdle
  /\ RunsIdle

\* parseAnalysisResult of services/gemini.ts is called on the text
ParseGemini ==
  /\ pPc = "input"
  /\ pVariant = "gemini.ts"
  /\ pReport' = parseAnalysisResultV1(pText)
  /\ pPc' = "done"
  /\ UNCHANGED <<pText, pVariant, exceptParse>>

\* parseAnalysisResult of the streaming analyzeRepo is called on the text
ParseStreaming ==
  /\ pPc = "input"
  /\ pVariant = "streaming"
  /\ pReport' = parseAnalysisResult(pText)
  /\ pPc' = "done"
  /\ UNCHANGED <<pText, pVariant, exceptParse>>

NextParse == ParseGemini \/ ParseStreaming

SpecParse == InitParse /\ [][NextParse]_vars

\* ------------------------------------------------------------------------
\* api/analyze.ts (the stream of the handler) and the streaming loop of
\* analyzeRepo
\* ------------------------------------------------------------------------

\* UTF-8: the bullet takes three bytes, every other character of the texts one
EncodeChar(c) == IF c = "BULLET" THEN <<"E2", "80", "A2">> ELSE <<c>>

\* the number of bytes of the first n characters of s
EncodedLen(s, n) == n + 2 * Cardinality({j \in 1..n : s[j] = "BULLET"})

\* new TextEncoder().encode(text): byte j belongs to the character i whose
\* bytes lie at EncodedLen(s, i - 1) + 1 .. EncodedLen(s, i)
encode(s) ==
  [j \in 1..EncodedLen(s, Len(s)) |->
     LET i == CHOOSE i \in 1..Len(s) : EncodedLen(s, i - 1) < j /\ j <= EncodedLen(s, i)
     IN EncodeChar(s[i])[j - EncodedLen(s, i - 1)]]

\* the UTF-8 decoder in stream mode: complete characters are decoded, an
\* incomplete character at the end is held back, a malformed sequence becomes
\* the replacement character
decodeStream(b) ==
  LET n == Len(b)
      Continues(i) == \/ b[i] = "80" /\ i > 1 /\ b[i - 1] = "E2"
                      \/ b[i] = "A2" /\ i > 2 /\ b[i - 2] = "E2" /\ b[i - 1] = "80"
      Complete(i)  == b[i] = "E2" /\ i + 2 <= n /\ b[i + 1] = "80" /\ b[i + 2] = "A2"
      Held(i)      == b[i] = "E2" /\ (i = n \/ (i = n - 1 /\ b[n] = "80"))
      char(i)      == IF Continues(i) \/ Held(i) THEN "NONE"
                      ELSE IF Complete(i) THEN "BULLET"
                      ELSE IF b[i] \in {"E2", "80", "A2"} THEN "FFFD"
                      ELSE b[i]
      IsChar(c)    == c # "NONE"
  IN [text    |-> SelectSeq([i \in 1..n |-> char(i)], IsChar),
      pending |-> IF \E i \in 1..n : Held(i)
                  THEN SubSeq(b, CHOOSE i \in 1..n : Held(i), n)
                  ELSE <<>>]

\* decoder.decode(value) without the stream option: an incomplete character at
\* the end of the chunk is replaced instead of held back
decodeChunkNoStream(pending, value) ==
  LET d == decodeStream(value) IN
  [text |-> IF d.pending = <<>> THEN d.text ELSE d.text \o <<"FFFD">>, pending |-> <<>>]

\* decoder.decode(value, { stream: true }) (line 176)
decodeChunk(pending, value) == decodeStream(pending \o value)

AccumulateLast(acc, chunk) == chunk

\* accumulatedText += chunk (line 177)
Accumulate(acc, chunk) == acc \o chunk

\* the report with the flag left at the default of the parameter
SetIsFallbackDefault(report, fb) ==
  [k \in (DOMAIN report) \cup {"isFallback"} |->
     IF k = "isFallback" THEN FALSE ELSE report[k]]

\* partialData.isFallback = isFallback (lines 182, 189)
SetIsFallback(report, fb) ==
  [k \in (DOMAIN report) \cup {"isFallback"} |->
     IF k = "isFallback" THEN fb ELSE report[k]]

\* the chunks of result.stream: an empty first chunk, then the text line by
\* line
GenChunks(text) ==
  LET lines == split(text) IN
  <<<<>>>> \o [k \in 1..Len(lines) |->
                 IF k < Len(lines) THEN lines[k] \o <<"\n">> ELSE lines[k]]

MaxChunks == 3

MaxRead == 2

\* the sizes of the chunk reader.read() may deliver from the bytes in flight
ReadSizes(w) == {n \in 1..Len(w) : n <= MaxRead \/ n = Len(w)}

\* the response has arrived and analyzeRepo stands before its read loop; the
\* handler's stream has been started
InitStream ==
  /\ sText \in StreamTexts
  /\ sFallback \in BOOLEAN
  /\ onProgress \in BOOLEAN
  /\ genLeft = GenChunks(sText)
  /\ wire = <<>>
  /\ streamState = "open"
  /\ aPc = "reading"
  /\ accumulatedText = <<>>
  /\ decoderPending = <<>>
  /\ received = <<>>
  /\ calls = <<>>
  /\ result = <<>>
  /\ SelectIdle
  /\ FetchIdle
  /\ ParseIdle
  /\ AppIdle
  /\ UrlIdle
  /\ PromptIdle
  /\ GenIdle
  /\ JsonIdle
  /\ RunsIdle

\* api/analyze.ts, lines 56-61: the next chunk of the generation, enqueued
\* unless its text is empty
HandlerEnqueue ==
  /\ streamState = "open"
  /\ genLeft # <<>>
  /\ wire' = IF Head(genLeft) # <<>> THEN wire \o encode(Head(genLeft)) ELSE wire
  /\ genLeft' = Tail(genLeft)
  /\ UNCHANGED <<sText, sFallback, streamState, aPc, accumulatedText, decoderPending,
                 received, onProgress, calls, result>>
  /\ UNCHANGED <<exceptStream>>

\* api/analyze.ts, line 62: controller.close() after the last chunk
HandlerClose ==
  /\ streamState = "open"
  /\ genLeft = <<>>
  /\ streamState' = "closed"
  /\ UNCHANGED <<sText, sFallback, genLeft, wire, aPc, accumulatedText, decoderPending,
                 received, onProgress, calls, result>>
  /\ UNCHANGED <<exceptStream>>

\* api/analyze.ts, lines 63-69: the generation fails; controller.error discards
\* what is queued and fails the pending and the later reads
HandlerError ==
  /\ streamState = "open"
  /\ streamState' = "errored"
  /\ wire' = <<>>
  /\ UNCHANGED <<sText, sFallback, genLeft, aPc, accumulatedText, decoderPending,
                 received, onProgress, calls, result>>
  /\ UNCHANGED <<exceptStream>>

\* part_003, lines 172-184: reader.read() delivers a chunk of n bytes
ReaderRead(n) ==
  /\ aPc = "reading"
  /\ Len(received) < MaxChunks
  /\ n \in ReadSizes(wire)
  /\ LET value == SubSeq(wire, 1, n)
         d     == decodeChunk(decoderPending, value)
         acc   == Accumulate(accumulatedText, d.text)
     IN /\ wire' = SubSeq(wire, n + 1, Len(wire))
        /\ received' = Append(received, value)
        /\ decoderPending' = d.pending
        /\ accumulatedText' = acc
        /\ calls' = IF onProgress
                    THEN Append(calls, SetIsFallback(parseAnalysisResult(acc), sFallback))
                    ELSE calls
  /\ UNCHANGED <<sText, sFallback, genLeft, streamState, aPc, onProgress, result>>
  /\ UNCHANGED <<exceptStream>>

\* part_003, lines 173-174 and 187-190: reader.read() reports done, the final
\* parse is returned
ReaderDone ==
  /\ aPc = "reading"
  /\ wire = <<>>
  /\ streamState = "closed"
  /\ result' = SetIsFallback(parseAnalysisResult(accumulatedText), sFallback)
  /\ aPc' = "returned"
  /\ UNCHANGED <<sText, sFallback, genLeft, wire, streamState, accumulatedText,
                 decoderPending, received, onProgress, calls>>
  /\ UNCHANGED <<exceptStream>>

\* part_003, lines 192-197: reader.read() rejects, the error is thrown again
ReaderError ==
  /\ aPc = "reading"
  /\ streamState = "errored"
  /\ aPc' = "threw"
  /\ UNCHANGED <<sText, sFallback, genLeft, wire, streamState, accumulatedText,
                 decoderPending, received, onProgress, calls, result>>
  /\ UNCHANGED <<exceptStream>>

NextStream ==
  \/ HandlerEnqueue
  \/ HandlerClose
  \/ HandlerError
  \/ \E n \in 1..(MaxRead + 1) : ReaderRead(IF n > MaxRead THEN Len(wire) ELSE n)
  \/ ReaderDone
  \/ ReaderError

SpecStream == InitStream /\ [][NextStream]_vars

\* ------------------------------------------------------------------------
\* App.tsx: handleAnalyze and the state of the component
\* ------------------------------------------------------------------------

\* data?: RepoAnalysis left out of a state object
NoData == [kind |-> "undefined", n |-> 0, isFallback |-> FALSE]

\* the nth Report passed to onProgress, the Report analyzeRepo returns
Partial(n, fb) == [kind |-> "partial", n |-> n, isFallback |-> fb]

Final(fb) == [kind |-> "final", n |-> 0, isFallback |-> fb]

\* useState<AnalysisState>({ status: 'idle', message: '' }) (line 31)
InitialState == [status |-> "idle", message |-> "", data |-> NoData]

\* setState({ status: 'fetching', message: 'Scanning repository...' }) (line 96)
FetchingState == [status |-> "fetching", message |-> "scanning", data |-> NoData]

\* lines 108-113
AnalyzingState(fb) ==
  [status |-> "analyzing",
   message |-> IF fb THEN "limit reached, inferred analysis" ELSE "analyzing structure",
   data |-> NoData]

\* lines 137-142: setState(prev => ({ ...prev, status, message, data }))
ProgressState(prev, partialData) ==
  [prev EXCEPT !.status = "analyzing", !.message = "generating", !.data = partialData]

\* line 146
CompleteState(analysis) == [status |-> "complete", message |-> "complete", data |-> analysis]

ErrorStateSpread(prev, msg) == [prev EXCEPT !.status = "error", !.message = msg]

\* setState({ status: 'error', message: msg }) (lines 80, 85, 91, 157-160)
ErrorState(prev, msg) == [status |-> "error", message |-> msg, data |-> NoData]

CanSubmitAlways(st) == TRUE

\* lines 352, 359: the input and the button are disabled while an attempt runs
CanSubmit(st) == ~(st.status = "fetching" \/ st.status = "analyzing")

MaxAttempts == 2

MaxSnapshots == 2

InitApp ==
  /\ state = InitialState
  /\ currentStep = 0
  /\ url = "empty"
  /\ geminiApiKey \in BOOLEAN
  /\ isSettingsOpen = FALSE
  /\ hPc = "none"
  /\ isFallback = FALSE
  /\ attempts = 0
  /\ delivered = 0
  /\ outcomes = <<>>
  /\ trail = <<>>
  /\ SelectIdle
  /\ FetchIdle
  /\ ParseIdle
  /\ StreamIdle
  /\ UrlIdle
  /\ PromptIdle
  /\ GenIdle
  /\ JsonIdle
  /\ RunsIdle

\* lines 351, 167: the URL field is edited or an example is chosen
SetUrl(u) ==
  /\ url' = u
  /\ UNCHANGED <<state, currentStep, geminiApiKey, isSettingsOpen, hPc, isFallback,
                 attempts, delivered, outcomes, trail>>
  /\ UNCHANGED <<exceptApp>>

\* line 210: the key field of the settings is edited
SetGeminiApiKey(k) ==
  /\ isSettingsOpen
  /\ geminiApiKey' = k
  /\ UNCHANGED <<state, currentStep, url, isSettingsOpen, hPc, isFallback,
                 attempts, delivered, outcomes, trail>>
  /\ UNCHANGED <<exceptApp>>

\* lines 277, 535 open the settings, lines 68, 192 close them
SetIsSettingsOpen(b) ==
  /\ isSettingsOpen' = b
  /\ UNCHANGED <<state, currentStep, url, geminiApiKey, hPc, isFallback,
                 attempts, delivered, outcomes, trail>>
  /\ UNCHANGED <<exceptApp>>

\* the submission without the check of what parseRepoUrl returned
HandleAnalyzeNoUrlCheck ==
  /\ CanSubmit(state)
  /\ attempts < MaxAttempts
  /\ attempts' = attempts + 1
  /\ delivered' = 0
  /\ IF ~geminiApiKey
     THEN /\ isSettingsOpen' = TRUE
          /\ state' = ErrorState(state, "key required")
          /\ outcomes' = <<"error">>
          /\ UNCHANGED <<currentStep, hPc>>
     ELSE IF url = "empty"
     THEN /\ state' = ErrorState(state, "enter a URL")
          /\ outcomes' = <<"error">>
          /\ UNCHANGED <<currentStep, hPc, isSettingsOpen>>
     ELSE /\ state' = FetchingState
          /\ currentStep' = 1
          /\ hPc' = "getRepoContext"
          /\ outcomes' = <<>>
          /\ UNCHANGED isSettingsOpen
  /\ trail' = Append(trail, state'.status)
  /\ UNCHANGED <<url, geminiApiKey, isFallback>>
  /\ UNCHANGED <<exceptApp>>

\* handleAnalyze, lines 71-97: the form is submitted
HandleAnalyze ==
  /\ CanSubmit(state)
  /\ attempts < MaxAttempts
  /\ attempts' = attempts + 1
  /\ delivered' = 0
  /\ IF ~geminiApiKey
     THEN /\ isSettingsOpen' = TRUE
          /\ state' = ErrorState(state, "key required")
          /\ outcomes' = <<"error">>
          /\ UNCHANGED <<currentStep, hPc>>
     ELSE IF url = "empty"
     THEN /\ state' = ErrorState(state, "enter a URL")
          /\ outcomes' = <<"error">>
          /\ UNCHANGED <<currentStep, hPc, isSettingsOpen>>
     ELSE IF url = "invalid"
     THEN /\ state' = ErrorState(state, "invalid URL")
          /\ outcomes' = <<"error">>
          /\ UNCHANGED <<currentStep, hPc, isSettingsOpen>>
     ELSE /\ state' = FetchingState
          /\ currentStep' = 1
          /\ hPc' = "getRepoContext"
          /\ outcomes' = <<>>
          /\ UNCHANGED isSettingsOpen
  /\ trail' = Append(trail, state'.status)
  /\ UNCHANGED <<url, geminiApiKey, isFallback>>
  /\ UNCHANGED <<exceptApp>>

\* lines 149-161: the catch clause
Catch(msg) ==
  /\ state' = ErrorState(state, msg)
  /\ currentStep' = 0
  /\ hPc' = "none"
  /\ outcomes' = Append(outcomes, "error")
  /\ trail' = Append(trail, state'.status)
  /\ UNCHANGED <<url, geminiApiKey, isSettingsOpen, isFallback, attempts, delivered>>
  /\ UNCHANGED <<exceptApp>>

\* lines 101-104: getRepoContext returns a context
ContextReturns(fb) ==
  /\ hPc = "getRepoContext"
  /\ isFallback' = fb
  /\ currentStep' = 2
  /\ hPc' = "delay"
  /\ UNCHANGED <<state, url, geminiApiKey, isSettingsOpen, attempts, delivered, outcomes,
                 trail>>
  /\ UNCHANGED <<exceptApp>>

\* line 101: getRepoContext throws
ContextThrows ==
  /\ hPc = "getRepoContext"
  /\ Catch("fetch failed")

\* lines 106-116: the delay has elapsed, the analysis is started
DelayElapsed ==
  /\ hPc = "delay"
  /\ state' = AnalyzingState(isFallback)
  /\ currentStep' = 3
  /\ hPc' = "analyzeRepo"
  /\ trail' = Append(trail, state'.status)
  /\ UNCHANGED <<url, geminiApiKey, isSettingsOpen, isFallback, attempts, delivered, outcomes>>
  /\ UNCHANGED <<exceptApp>>

\* lines 127-143: analyzeRepo calls onProgress with a partial Report
Progress ==
  /\ hPc = "analyzeRepo"
  /\ delivered < MaxSnapshots
  /\ delivered' = delivered + 1
  /\ currentStep' = 4
  /\ state' = ProgressState(state, Partial(delivered + 1, isFallback))
  /\ trail' = Append(trail, state'.status)
  /\ UNCHANGED <<url, geminiApiKey, isSettingsOpen, hPc, isFallback, attempts, outcomes>>
  /\ UNCHANGED <<exceptApp>>

\* lines 119-147: analyzeRepo returns the final Report
AnalysisReturns ==
  /\ hPc = "analyzeRepo"
  /\ state' = CompleteState(Final(isFallback))
  /\ currentStep' = 4
  /\ hPc' = "none"
  /\ outcomes' = Append(outcomes, "complete")
  /\ trail' = Append(trail, state'.status)
  /\ UNCHANGED <<url, geminiApiKey, isSettingsOpen, isFallback, attempts, delivered>>
  /\ UNCHANGED <<exceptApp>>

\* line 119: analyzeRepo throws
AnalysisThrows ==
  /\ hPc = "analyzeRepo"
  /\ Catch("analysis failed")

\* line 170
showResults == (state.status = "complete" \/ state.status = "analyzing") /\ state.data # NoData

NextApp ==
  \/ \E u \in {"empty", "invalid", "valid"} : SetUrl(u)
  \/ \E k \in BOOLEAN : SetGeminiApiKey(k)
  \/ \E b \in BOOLEAN : SetIsSettingsOpen(b)
  \/ HandleAnalyze
  \/ \E fb \in BOOLEAN : ContextReturns(fb)
  \/ ContextThrows
  \/ DelayElapsed
  \/ Progress
  \/ AnalysisReturns
  \/ AnalysisThrows

SpecApp == InitApp /\ [][NextApp]_vars

\* ------------------------------------------------------------------------
\* App.tsx: the calls of handleAnalyze as closures over one shared state.
\* Each call keeps its own position, its own context.isFallback and its own
\* count of snapshots; state and currentStep are the component's.
\* ------------------------------------------------------------------------

\* a call of handleAnalyze: where it stands and what its closure holds
Run(pc, fb, n) == [pc |-> pc, isFallback |-> fb, delivered |-> n]

\* the calls that have not returned yet
InFlight(rs) == {k \in 1..Len(rs) : rs[k].pc # "none"}

InitRuns == InitApp

\* handleAnalyze, lines 71-97: the form is submitted and a new call starts
RunHandleAnalyze ==
  /\ CanSubmit(state)
  /\ attempts < MaxAttempts
  /\ attempts' = attempts + 1
  /\ IF ~geminiApiKey
     THEN /\ isSettingsOpen' = TRUE
          /\ state' = ErrorState(state, "key required")
          /\ runs' = Append(runs, Run("none", FALSE, 0))
          /\ UNCHANGED currentStep
     ELSE IF url = "empty"
     THEN /\ state' = ErrorState(state, "enter a URL")
          /\ runs' = Append(runs, Run("none", FALSE, 0))
          /\ UNCHANGED <<currentStep, isSettingsOpen>>
     ELSE IF url = "invalid"
     THEN /\ state' = ErrorState(state, "invalid URL")
          /\ runs' = Append(runs, Run("none", FALSE, 0))
          /\ UNCHANGED <<currentStep, isSettingsOpen>>
     ELSE /\ state' = FetchingState
          /\ currentStep' = 1
          /\ runs' = Append(runs, Run("getRepoContext", FALSE, 0))
          /\ UNCHANGED isSettingsOpen
  /\ writer' = Len(runs) + 1
  /\ trail' = Append(trail, state'.status)
  /\ UNCHANGED <<url, geminiApiKey, hPc, isFallback, delivered, outcomes>>
  /\ UNCHANGED <<exceptRuns>>

\* lines 149-161: the catch clause of call k
RunCatch(k, msg) ==
  /\ state' = ErrorState(state, msg)
  /\ currentStep' = 0
  /\ runs' = [runs EXCEPT ![k].pc = "none"]
  /\ writer' = k
  /\ trail' = Append(trail, state'.status)
  /\ UNCHANGED <<url, geminiApiKey, isSettingsOpen, hPc, isFallback, attempts, delivered,
                 outcomes>>
  /\ UNCHANGED <<exceptRuns>>

\* lines 101-104: getRepoContext returns a context to call k
RunContextReturns(k, fb) ==
  /\ k \in DOMAIN runs
  /\ runs[k].pc = "getRepoContext"
  /\ runs' = [runs EXCEPT ![k].pc = "delay", ![k].isFallback = fb]
  /\ currentStep' = 2
  /\ UNCHANGED <<state, url, geminiApiKey, isSettingsOpen, hPc, isFallback, attempts,
                 delivered, outcomes, trail, writer>>
  /\ UNCHANGED <<exceptRuns>>

\* line 101: getRepoContext throws in call k
RunContextThrows(k) ==
  /\ k \in DOMAIN runs
  /\ runs[k].pc = "getRepoContext"
  /\ RunCatch(k, "fetch failed")

\* lines 106-116: the delay of call k has elapsed, the analysis is started
RunDelayElapsed(k) ==
  /\ k \in DOMAIN runs
  /\ runs[k].pc = "delay"
  /\ state' = AnalyzingState(runs[k].isFallback)
  /\ currentStep' = 3
  /\ runs' = [runs EXCEPT ![k].pc = "analyzeRepo"]
  /\ writer' = k
  /\ trail' = Append(trail, state'.status)
  /\ UNCHANGED <<url, geminiApiKey, isSettingsOpen, hPc, isFallback, attempts, delivered,
                 outcomes>>
  /\ UNCHANGED <<exceptRuns>>

\* lines 127-143: analyzeRepo of call k calls onProgress with a partial Report
RunProgress(k) ==
  /\ k \in DOMAIN runs
  /\ runs[k].pc = "analyzeRepo"
  /\ runs[k].delivered < MaxSnapshots
  /\ runs' = [runs EXCEPT ![k].delivered = @ + 1]
  /\ currentStep' = 4
  /\ state' = ProgressState(state, Partial(runs[k].delivered + 1, runs[k].isFallback))
  /\ writer' = k
  /\ trail' = Append(trail, state'.status)
  /\ UNCHANGED <<url, geminiApiKey, isSettingsOpen, hPc, isFallback, attempts, delivered,
                 outcomes>>
  /\ UNCHANGED <<exceptRuns>>

\* lines 119-147: analyzeRepo of call k returns the final Report
RunAnalysisReturns(k) ==
  /\ k \in DOMAIN runs
  /\ runs[k].pc = "analyzeRepo"
  /\ state' = CompleteState(Final(runs[k].isFallback))
  /\ currentStep' = 4
  /\ runs' = [runs EXCEPT ![k].pc = "none"]
  /\ writer' = k
  /\ trail' = Append(trail, state'.status)
  /\ UNCHANGED <<url, geminiApiKey, isSettingsOpen, hPc, isFallback, attempts, delivered,
                 outcomes>>
  /\ UNCHANGED <<exceptRuns>>

\* line 119: analyzeRepo throws in call k
RunAnalysisThrows(k) ==
  /\ k \in DOMAIN runs
  /\ runs[k].pc = "analyzeRepo"
  /\ RunCatch(k, "analysis failed")

\* the field edits of SpecApp leave the calls alone: runVars is in exceptApp
NextRuns ==
  \/ \E u \in {"empty", "invalid", "valid"} : SetUrl(u)
  \/ \E k \in BOOLEAN : SetGeminiApiKey(k)
  \/ \E b \in BOOLEAN : SetIsSettingsOpen(b)
  \/ RunHandleAnalyze
  \/ \E k \in 1..Len(runs) : \E fb \in BOOLEAN : RunContextReturns(k, fb)
  \/ \E k \in 1..Len(runs) : RunContextThrows(k)
  \/ \E k \in 1..Len(runs) : RunDelayElapsed(k)
  \/ \E k \in 1..Len(runs) : RunProgress(k)
  \/ \E k \in 1..Len(runs) : RunAnalysisReturns(k)
  \/ \E k \in 1..Len(runs) : RunAnalysisThrows(k)

SpecRuns == InitRuns /\ [][NextRuns]_vars

\* ------------------------------------------------------------------------
\* services/github.ts: parseRepoUrl, with the URL parser it calls
\* ------------------------------------------------------------------------

\* the first position of s that holds a character of C, Len(s) + 1 if none
IndexOfAny(s, C) ==
  IF \E i \in 1..Len(s) : s[i] \in C
  THEN CHOOSE i \in 1..Len(s) : s[i] \in C /\ \A j \in 1..(i - 1) : s[j] \notin C
  ELSE Len(s) + 1

\* the last position of s that holds c, 0 if none
LastIndexOf(s, c) ==
  IF \E i \in 1..Len(s) : s[i] = c
  THEN CHOOSE i \in 1..Len(s) : s[i] = c /\ \A j \in (i + 1)..Len(s) : s[j] # c
  ELSE 0

\* the pieces of s between the characters of C
splitAny(s, C) ==
  LET at == {i \in 1..Len(s) : s[i] \in C}
      nth(k) == IF k = 0 THEN 0
                ELSE IF k > Cardinality(at) THEN Len(s) + 1
                ELSE CHOOSE i \in at : Cardinality({j \in at : j < i}) = k - 1
  IN [k \in 1..(Cardinality(at) + 1) |-> SubSeq(s, nth(k - 1) + 1, nth(k) - 1)]

HttpPrefix  == <<"h","t","t","p",":","/","/">>
HttpsPrefix == <<"h","t","t","p","s",":","/","/">>

Slashes == {"/", "\\"}

\* code points a host may not hold, among the characters of the inputs
ForbiddenHostChars == {" "}

URLFailure == [ok |-> FALSE, hostname |-> <<>>, pathname |-> <<>>]

\* the port state: digits only, at most 65535, or nothing
ValidPort(port) ==
  /\ \A i \in 1..Len(port) : IsDigit(port[i])
  /\ Len(port) <= 6
  /\ DecimalValue(port, 0) <= 65535

RECURSIVE PercentEncode(_)
\* the path percent-encode set, among the characters of the inputs: the space
PercentEncode(seg) ==
  IF seg = <<>> THEN <<>>
  ELSE (IF Head(seg) = " " THEN <<"%","2","0">> ELSE <<Head(seg)>>) \o PercentEncode(Tail(seg))

RECURSIVE PathList(_, _)
\* the path state: a double-dot segment removes the last segment of the path,
\* a single-dot segment is dropped (either leaves an empty segment when it is
\* the last one), any other segment is appended
PathList(path, segs) ==
  IF segs = <<>> THEN path
  ELSE LET seg  == Head(segs)
           last == Len(segs) = 1
           next == IF seg = <<".", ".">>
                   THEN (IF path = <<>> THEN <<>> ELSE SubSeq(path, 1, Len(path) - 1))
                          \o (IF last THEN << <<>> >> ELSE <<>>)
                   ELSE IF seg = <<".">>
                   THEN path \o (IF last THEN << <<>> >> ELSE <<>>)
                   ELSE Append(path, PercentEncode(seg))
       IN PathList(next, Tail(segs))

RECURSIVE JoinPath(_)
\* the path serialised: a slash before every segment
JoinPath(path) ==
  IF path = <<>> THEN <<>> ELSE <<"/">> \o Head(path) \o JoinPath(Tail(path))

\* urlObj.pathname for the part of the input from the end of the authority to
\* the query or fragment
PathName(rawPath) ==
  IF rawPath = <<>> THEN <<"/">>
  ELSE JoinPath(PathList(<<>>, splitAny(SubSeq(rawPath, 2, Len(rawPath)), Slashes)))

\* new URL(href) for an href that starts with http:// or https:// (the only
\* ones parseRepoUrl passes): the slashes after the scheme are skipped, the
\* authority runs to the first slash, backslash, ? or #, the credentials end
\* at its last @, the port starts at the colon, the host is lower-cased, the
\* path runs to the first ? or #. The hosts of the inputs have no numeric
\* last label and no bracket, so the host parser takes its domain branch.
URL(href) ==
  IF ~(startsWith(href, HttpPrefix) \/ startsWith(href, HttpsPrefix)) THEN URLFailure
  ELSE LET afterColon == SubSeq(href, IndexOfAny(href, {":"}) + 1, Len(href))
           start      == IF \E i \in 1..Len(afterColon) : afterColon[i] \notin Slashes
                         THEN CHOOSE i \in 1..Len(afterColon) :
                                /\ afterColon[i] \notin Slashes
                                /\ \A j \in 1..(i - 1) : afterColon[j] \in Slashes
                         ELSE Len(afterColon) + 1
           rest       == SubSeq(afterColon, start, Len(afterColon))
           aEnd       == IndexOfAny(rest, {"/", "\\", "?", "#"})
           authority  == SubSeq(rest, 1, aEnd - 1)
           tail       == SubSeq(rest, aEnd, Len(rest))
           hostport   == SubSeq(authority, LastIndexOf(authority, "@") + 1, Len(authority))
           colon      == IndexOfAny(hostport, {":"})
           host       == SubSeq(hostport, 1, colon - 1)
           port       == SubSeq(hostport, colon + 1, Len(hostport))
           rawPath    == SubSeq(tail, 1, IndexOfAny(tail, {"?", "#"}) - 1)
       IN IF host = <<>> \/ (\E i \in 1..Len(host) : host[i] \in ForbiddenHostChars)
             \/ ~ValidPort(port)
          THEN URLFailure
          ELSE [ok |-> TRUE, hostname |-> toLowerCase(host), pathname |-> PathName(rawPath)]

GithubHost    == <<"g","i","t","h","u","b",".","c","o","m">>
WwwGithubHost == <<"w","w","w",".","g","i","t","h","u","b",".","c","o","m">>

IsGithubHostAny(hostname) == TRUE

\* line 12: the hostname is github.com or www.github.com
IsGithubHost(hostname) == hostname = GithubHost \/ hostname = WwwGithubHost

NonEmpty(x) == x # <<>>

\* urlObj.pathname.split('/').filter(Boolean) (line 13)
PathParts(pathname) == SelectSeq(splitAny(pathname, {"/"}), NonEmpty)

NullRepo == [null |-> TRUE, owner |-> <<>>, repo |-> <<>>]

Repo(owner, repo) == [null |-> FALSE, owner |-> owner, repo |-> repo]

WithSchemeUnchanged(cleanUrl) == cleanUrl

\* lines 8-10: https:// is put before a string that starts with neither scheme
WithScheme(cleanUrl) ==
  IF ~startsWith(cleanUrl, HttpPrefix) /\ ~startsWith(cleanUrl, HttpsPrefix)
  THEN HttpsPrefix \o cleanUrl
  ELSE cleanUrl

\* lines 7-15: the body of the try block
parseRepoUrlTry(input) ==
  LET cleanUrl == WithScheme(trim(input))
      urlObj   == URL(cleanUrl)
  IN IF ~urlObj.ok THEN Throw("TypeError")
     ELSE IF ~IsGithubHost(urlObj.hostname) THEN Return(NullRepo)
     ELSE LET pathParts == PathParts(urlObj.pathname) IN
          IF Len(pathParts) >= 2 THEN Return(Repo(pathParts[1], pathParts[2]))
          ELSE Return(NullRepo)

\* lines 5-19: whatever the try block throws, the catch clause returns null
parseRepoUrl(input) ==
  LET r == parseRepoUrlTry(input) IN
  IF r.kind = "throw" THEN Return(NullRepo) ELSE r

\* inputs: an optional scheme, a host part and a path part, bare or padded
UrlPrefixes == {
  <<>>,
  <<"h","t","t","p",":","/","/">>,
  <<"h","t","t","p","s",":","/","/">>,
  <<"H","T","T","P","S",":","/","/">> }

UrlHosts == {
  <<"g","i","t","h","u","b",".","c","o","m">>,
  <<"w","w","w",".","g","i","t","h","u","b",".","c","o","m">>,
  <<"G","i","t","H","u","b",".","c","o","m">>,
  <<"g","i","t","l","a","b",".","c","o","m">>,
  <<"a","p","i",".","g","i","t","h","u","b",".","c","o","m">>,
  <<"g","i","t","h","u","b",".","c","o","m",".">>,
  <<"g","i","t","h","u","b",".","c","o","m",":","4","4","3">>,
  <<"g","i","t","h","u","b",".","c","o","m",":","9","9","9","9","9">>,
  <<"g","i","t","h","u","b",".","c","o","m",":","8","a">>,
  <<"u","s","e","r","@","g","i","t","h","u","b",".","c","o","m">>,
  <<"g","i","t"," ","h","u","b",".","c","o","m">>,
  <<>> }

Owners == {
  <<"a","c","m","e">>,
  <<"A","c","m","e","-","1">> }

Names == {
  <<"w","i","d","g","e","t">>,
  <<"w","i","d","g","e","t",".","g","i","t">>,
  <<"W","_","x">> }

OwnerNamePath(o, n) == <<"/">> \o o \o <<"/">> \o n

UrlPaths == {
  <<>>,
  <<"/">>,
  <<"/","a","c","m","e">>,
  <<"/","a","c","m","e","/">>,
  <<"/","a","c","m","e","/","w","i","d","g","e","t","/","t","r","e","e","/","m","a","i","n">>,
  <<"/","/","a","c","m","e","/","/","w","i","d","g","e","t">>,
  <<"/","a","c","m","e","/",".",".","/","w","i","d","g","e","t">>,
  <<"/","a","c","m","e","/",".","/","w","i","d","g","e","t">>,
  <<"/","a","c","m","e","/",".",".">>,
  <<"/","a","c","m","e","?","x","/","y">>,
  <<"/","a","c","m","e","/","w","i","d","g","e","t","#","r","e","a","d","m","e">>,
  <<"\\","a","c","m","e","\\","w","i","d","g","e","t">>,
  <<"/","a"," ","b","/","c">> }
  \cup {OwnerNamePath(o, n) : o \in Owners, n \in Names}

Padded(s) == <<" ">> \o s \o <<" ", "\n">>

UrlInputs ==
  LET plain == {p \o h \o q : p \in UrlPrefixes, h \in UrlHosts, q \in UrlPaths}
  IN plain \cup {Padded(s) : s \in plain}

InitUrl ==
  /\ uInput \in UrlInputs
  /\ uResult = <<>>
  /\ uPc = "input"
  /\ SelectIdle
  /\ FetchIdle
  /\ ParseIdle
  /\ StreamIdle
  /\ AppIdle
  /\ PromptIdle
  /\ GenIdle
  /\ JsonIdle
  /\ RunsIdle

\* parseRepoUrl is called on the input
ParseRepoUrl ==
  /\ uPc = "input"
  /\ LET r == parseRepoUrl(uInput) IN
       /\ uPc' = IF r.kind = "throw" THEN "threw" ELSE "returned"
       /\ uResult' = IF r.kind = "throw" THEN NullRepo ELSE r.value
  /\ UNCHANGED <<uInput, exceptUrl>>

NextUrl == ParseRepoUrl

SpecUrl == InitUrl /\ [][NextUrl]_vars

\* ------------------------------------------------------------------------
\* The prompt of analyzeRepo (services/gemini.ts and its streaming version)
\*
\* The prompt is a template literal. It is modelled as the sequence of its
\* parts: every fixed marker line and every interpolated value is one
\* segment. A file body is a span of the file's content (start, len), so
\* that substring(0, n) is computed on the length of the content.
\* ------------------------------------------------------------------------

Seg(kind, text) == [kind |-> kind, text |-> text, start |-> 0, len |-> 0]

Body(path, content) ==
  [kind |-> "body", text |-> path, start |-> content.start, len |-> content.len]

\* String.prototype.substring(0, n) on a content span
substring0(content, n) ==
  [content EXCEPT !.len = IF content.len < n THEN content.len ELSE n]

\* the block of one file: START FILE line, truncated content, END FILE line
fileBlock(f, budget) ==
  << Seg("START FILE", f.path),
     Body(f.path, substring0(f.content, budget)),
     Seg("END FILE", f.path) >>

\* files.map(f => block).join('\n')
fileContext(files, budget) ==
  [i \in 1..(3 * Len(files)) |-> fileBlock(files[(i + 2) \div 3], budget)[((i - 1) % 3) + 1]]

\* FILE STRUCTURE line, fileTree.join('\n'), END STRUCTURE line
treeContext(tree) ==
  <<Seg("FILE STRUCTURE", "")>>
    \o [i \in 1..Len(tree) |-> Seg("path", tree[i])]
    \o <<Seg("END STRUCTURE", "")>>

\* the notice that replaces the context when the files could not be fetched
fallbackNotice(repoName) == <<Seg("CRITICAL NOTICE", repoName)>>

\* contextSection with the file blocks appended in fallback mode as well
contextSectionLeaksFiles(repoName, tree, files, budget, fallback) ==
  IF fallback
    THEN fallbackNotice(repoName) \o fileContext(files, budget)
    ELSE treeContext(tree) \o fileContext(files, budget)

\* contextSection: the notice in fallback mode, else `${treeContext}\n\n${fileContext}`
contextSection(repoName, tree, files, budget, fallback) ==
  IF fallback
    THEN fallbackNotice(repoName)
    ELSE treeContext(tree) \o fileContext(files, budget)

\* prompt: Analyze the repository "${repoName}". ${contextSection} Provide ...
promptOf(repoName, section) ==
  <<Seg("Analyze the repository", repoName)>>
    \o section
    \o <<Seg("Provide the RepoSense analysis now", "")>>

\* services/gemini.ts: f.content.substring(0, 8000), whatever deepReasoning is
analyzeRepoPromptGemini(repoName, tree, files, deepReasoning, fallback) ==
  promptOf(repoName, contextSection(repoName, tree, files, 8000, fallback))

\* the streaming version: MAX_CHAR_COUNT = deepReasoning ? 12000 : 5000
MAX_CHAR_COUNT(deepReasoning) == IF deepReasoning THEN 12000 ELSE 5000

analyzeRepoPromptStreaming(repoName, tree, files, deepReasoning, fallback) ==
  promptOf(repoName,
           contextSection(repoName, tree, files, MAX_CHAR_COUNT(deepReasoning), fallback))

\* ---- the arguments
MaxTree == 2

MaxPromptFiles == 2

RepoNames == {"acme/widget"}

PromptPaths == {"README.md", "src/index.ts"}

\* content lengths around the three truncation lengths of the source
ContentLens == {0, 5001, 8001, 12001}

Content(n) == [start |-> 0, len |-> n]

FileDatas == {[path |-> p, content |-> Content(n)] : p \in PromptPaths, n \in ContentLens}

SeqsUpTo(S, n) == UNION {[1..k -> S] : k \in 0..n}

InitPrompt ==
  /\ qRepoName \in RepoNames
  /\ qFileTree \in SeqsUpTo(PromptPaths, MaxTree)
  /\ qFiles \in SeqsUpTo(FileDatas, MaxPromptFiles)
  /\ qDeepReasoning \in BOOLEAN
  /\ qIsFallback \in BOOLEAN
  /\ prompt = <<>>
  /\ qPc = "input"
  /\ SelectIdle
  /\ FetchIdle
  /\ ParseIdle
  /\ StreamIdle
  /\ AppIdle
  /\ UrlIdle
  /\ GenIdle
  /\ JsonIdle
  /\ RunsIdle

\* analyzeRepo of services/gemini.ts builds its prompt
BuildPromptGemini ==
  /\ qPc = "input"
  /\ prompt' = analyzeRepoPromptGemini(qRepoName, qFileTree, qFiles, qDeepReasoning, qIsFallback)
  /\ qPc' = "gemini.ts"
  /\ UNCHANGED <<qRepoName, qFileTree, qFiles, qDeepReasoning, qIsFallback, exceptPrompt>>

\* the streaming analyzeRepo builds its prompt
BuildPromptStreaming ==
  /\ qPc = "input"
  /\ prompt' = analyzeRepoPromptStreaming(qRepoName, qFileTree, qFiles, qDeepReasoning, qIsFallback)
  /\ qPc' = "streaming"
  /\ UNCHANGED <<qRepoName, qFileTree, qFiles, qDeepReasoning, qIsFallback, exceptPrompt>>

NextPrompt == BuildPromptGemini \/ BuildPromptStreaming

SpecPrompt == InitPrompt /\ [][NextPrompt]_vars

\* ------------------------------------------------------------------------
\* services/gemini.ts: the non-streaming analyzeRepo and its two model
\* attempts (performAnalysis(false), then performAnalysis(true))
\*
\* An error is modelled by the set of the keywords its lower-cased text
\* includes: that is all the catch clauses look at.
\* ------------------------------------------------------------------------

ErrorKeywords == {"429", "quota", "exhausted", "500", "503", "internal error", "api key", "403"}

Errors ==
  {{}} \cup {{k} : k \in ErrorKeywords} \cup {{"429", "api key"}, {"500", "403"}}

\* isRateLimit (line 197)
isRateLimit(errString) == errString \cap {"429", "quota", "exhausted"} # {}

\* isServerError (line 198)
isServerError(errString) == errString \cap {"500", "503", "internal error"} # {}

\* the message of the error thrown at line 234
FailureMessage(errString) ==
  IF errString \cap {"api key", "403"} # {} THEN "Invalid or missing API Key"
  ELSE IF isRateLimit(errString) THEN "Gemini API rate limit exceeded"
  ELSE IF isServerError(errString) THEN "Gemini API service is temporarily unavailable"
  ELSE "Failed to generate analysis"

\* lines 113-161: the prompt, built once from the arguments; of the
\* RepoContext it is the isFallback flag that selects its context section
contentsOf(fb) == IF fb THEN "prompt: clean room" ELSE "prompt: file context"

\* line 154: the system instruction, built once before the first call
systemInstruction == "systemInstruction"

\* performAnalysis(useFallbackModel): the request sent to the backend
performAnalysis(useFallbackModel) ==
  [model    |-> IF useFallbackModel THEN "gemini-3-flash-preview" ELSE "gemini-3-pro-preview",
   thinking |-> ~useFallbackModel,
   contents |-> contentsOf(nIsFallback),
   systemInstruction |-> systemInstruction]

\* response.text || '' for the texts the backend answers with
ResponseTexts == {T_Overview, T_Meta, T_Empty}

InitGen ==
  /\ nApiKey \in BOOLEAN
  /\ nIsFallback \in BOOLEAN
  /\ nPc = "called"
  /\ backendCalls = <<>>
  /\ firstError = <<>>
  /\ nResult = <<>>
  /\ nThrown = ""
  /\ SelectIdle
  /\ FetchIdle
  /\ ParseIdle
  /\ StreamIdle
  /\ AppIdle
  /\ UrlIdle
  /\ PromptIdle
  /\ JsonIdle
  /\ RunsIdle

\* lines 111 and 187: getAIClient(), then performAnalysis(false) is awaited
CallPrimary ==
  /\ nPc = "called"
  /\ IF nApiKey
       THEN /\ backendCalls' = Append(backendCalls, performAnalysis(FALSE))
            /\ nPc' = "primary"
            /\ nThrown' = nThrown
       ELSE /\ backendCalls' = backendCalls
            /\ nPc' = "threw"
            /\ nThrown' = "API Key is missing"
  /\ UNCHANGED <<nApiKey, nIsFallback, firstError, nResult, exceptGen>>

\* lines 188-192: the primary model answers
PrimaryReturns(text) ==
  /\ nPc = "primary"
  /\ nResult' = SetIsFallback(parseAnalysisResultV1(text), nIsFallback)
  /\ nPc' = "returned"
  /\ UNCHANGED <<nApiKey, nIsFallback, backendCalls, firstError, nThrown, exceptGen>>

\* the catch clause retrying after every failure of the primary model
PrimaryFailsRetryAll(errString) ==
  /\ nPc = "primary"
  /\ firstError' = <<errString>>
  /\ nPc' = "delay"
  /\ nThrown' = nThrown
  /\ UNCHANGED <<nApiKey, nIsFallback, backendCalls, nResult, exceptGen>>

\* lines 193-204 and 221-234: the primary model fails; a rate-limit or server
\* error waits for the retry, any other error is thrown with its message
PrimaryFails(errString) ==
  /\ nPc = "primary"
  /\ firstError' = <<errString>>
  /\ IF isRateLimit(errString) \/ isServerError(errString)
       THEN /\ nPc' = "delay"
            /\ nThrown' = nThrown
       ELSE /\ nPc' = "threw"
            /\ nThrown' = FailureMessage(errString)
  /\ UNCHANGED <<nApiKey, nIsFallback, backendCalls, nResult, exceptGen>>

\* lines 204-207: the delay has elapsed, performAnalysis(true) is awaited
CallFallback ==
  /\ nPc = "delay"
  /\ backendCalls' = Append(backendCalls, performAnalysis(TRUE))
  /\ nPc' = "fallback"
  /\ UNCHANGED <<nApiKey, nIsFallback, firstError, nResult, nThrown, exceptGen>>

\* lines 207-211: the fallback model answers
FallbackReturns(text) ==
  /\ nPc = "fallback"
  /\ nResult' = SetIsFallback(parseAnalysisResultV1(text), nIsFallback)
  /\ nPc' = "returned"
  /\ UNCHANGED <<nApiKey, nIsFallback, backendCalls, firstError, nThrown, exceptGen>>

\* lines 212-234: the fallback model fails too; a 429 is thrown as overload,
\* any other error falls through to the message of the first error
FallbackFails(fallbackError) ==
  /\ nPc = "fallback"
  /\ nThrown' = IF "429" \in fallbackError
                  THEN "Gemini API is currently overloaded"
                  ELSE FailureMessage(firstError[1])
  /\ nPc' = "threw"
  /\ UNCHANGED <<nApiKey, nIsFallback, backendCalls, firstError, nResult, exceptGen>>

NextGen ==
  \/ CallPrimary
  \/ \E text \in ResponseTexts : PrimaryReturns(text)
  \/ \E e \in Errors : PrimaryFails(e)
  \/ CallFallback
  \/ \E text \in ResponseTexts : FallbackReturns(text)
  \/ \E e \in Errors : FallbackFails(e)

SpecGen == InitGen /\ [][NextGen]_vars

\* the two analyzeRepo that take the isFallback flag of the RepoContext and
\* return Reports: one call of either
InitAnalyze == InitStream \/ InitGen

NextAnalyze == NextStream \/ NextGen

SpecAnalyze == InitAnalyze /\ [][NextAnalyze]_vars

\* ------------------------------------------------------------------------
\* The analyzeRepo that asks for a JSON response (part_003, lines 337-452)
\*
\* The response is a sequence of characters; the literal null is one
\* element, the double quote is written QUOTE and the backquote TICK. JSON.parse is computed by a pushdown scan over objects, arrays,
\* strings, numbers, null and white space.
\* ------------------------------------------------------------------------

\* the double quote character
Quote == "QUOTE"

\* the backquote character
Tick == "TICK"

Fence == <<Tick, Tick, Tick>>

FenceJson == Fence \o <<"j", "s", "o", "n">>

DropFirst(s, n) == SubSeq(s, n + 1, Len(s))

DropLast(s, n) == SubSeq(s, 1, Len(s) - n)

\* lines 428-432: trim, then the four replace calls that strip a code fence
cleanJsonStr(acc) ==
  LET t == trim(acc)
      a == IF startsWith(t, FenceJson) THEN DropFirst(t, Len(FenceJson)) ELSE t
      b == IF endsWith(a, Fence) THEN DropLast(a, Len(Fence)) ELSE a
      c == IF startsWith(b, Fence) THEN DropFirst(b, Len(Fence)) ELSE b
  IN IF endsWith(c, Fence) THEN DropLast(c, Len(Fence)) ELSE c

Pop(stack) == SubSeq(stack, 1, Len(stack) - 1)

Top(stack) == IF stack = <<>> THEN "none" ELSE stack[Len(stack)]

\* the scan of JSON.parse from character i on: stack holds the open
\* brackets, mode what is expected next
RECURSIVE JsonScan(_, _, _, _)
JsonScan(s, i, stack, mode) ==
  IF i > Len(s) THEN mode \in {"after", "num"} /\ stack = <<>>
  ELSE
    LET c == s[i]
        AfterValue ==
          CASE c = " " -> JsonScan(s, i + 1, stack, "after")
            [] c = "," /\ Top(stack) = "{" -> JsonScan(s, i + 1, stack, "key")
            [] c = "," /\ Top(stack) = "[" -> JsonScan(s, i + 1, stack, "value")
            [] c = "}" /\ Top(stack) = "{" -> JsonScan(s, i + 1, Pop(stack), "after")
            [] c = "]" /\ Top(stack) = "[" -> JsonScan(s, i + 1, Pop(stack), "after")
            [] OTHER -> FALSE
        Value ==
          CASE c = " " -> JsonScan(s, i + 1, stack, mode)
            [] c = "{" -> JsonScan(s, i + 1, Append(stack, "{"), "key0")
            [] c = "[" -> JsonScan(s, i + 1, Append(stack, "["), "value0")
            [] c = Quote -> JsonScan(s, i + 1, stack, "str")
            [] c = "1" -> JsonScan(s, i + 1, stack, "num")
            [] c = "null" -> JsonScan(s, i + 1, stack, "after")
            [] c = "]" /\ mode = "value0" -> JsonScan(s, i + 1, Pop(stack), "after")
            [] OTHER -> FALSE
    IN CASE mode \in {"value", "value0"} -> Value
         [] mode \in {"key", "key0"} ->
              (CASE c = " " -> JsonScan(s, i + 1, stack, mode)
                 [] c = Quote -> JsonScan(s, i + 1, stack, "kstr")
                 [] c = "}" /\ mode = "key0" -> JsonScan(s, i + 1, Pop(stack), "after")
                 [] OTHER -> FALSE)
         [] mode = "kstr" ->
              JsonScan(s, i + 1, stack, IF c = Quote THEN "colon" ELSE "kstr")
         [] mode = "colon" ->
              (CASE c = " " -> JsonScan(s, i + 1, stack, "colon")
                 [] c = ":" -> JsonScan(s, i + 1, stack, "value")
                 [] OTHER -> FALSE)
         [] mode = "str" ->
              JsonScan(s, i + 1, stack, IF c = Quote THEN "after" ELSE "str")
         [] mode = "num" ->
              IF c = "1" THEN JsonScan(s, i + 1, stack, "num") ELSE AfterValue
         [] OTHER -> AfterValue

\* whether JSON.parse(s) returns (it throws a SyntaxError otherwise)
JSONparses(s) == JsonScan(s, 1, <<>>, "value")

\* whether the parsed value is null: transformJsonToAnalysis reads a property
\* of it and throws a TypeError
ParsesToNull(s) == SelectSeq(s, LAMBDA c : c # " ") = <<"null">>

MalformedJson == "Failed to parse analysis results. The model output was not valid JSON."

\* the message the catch clause of lines 443-450 throws for an error message
Rethrown(msg) ==
  IF msg = "500" \/ msg = "503" THEN "Gemini API is temporarily unavailable."
  ELSE IF msg = "API key not valid" THEN "Invalid Gemini API Key. Please check your settings."
  ELSE IF msg = "429" THEN "Too many requests. Please wait a moment."
  ELSE msg

\* the loop body with a parse of the accumulator on every chunk
OnChunkParsing(st, text) ==
  LET acc == IF text # <<>> THEN st.acc \o text ELSE st.acc IN
    [acc |-> acc,
     parses |-> st.parses + 1,
     notified |-> IF JSONparses(cleanJsonStr(acc)) THEN st.notified + 1 ELSE st.notified,
     thrown |-> IF JSONparses(cleanJsonStr(acc)) THEN st.thrown
                ELSE Append(st.thrown, MalformedJson)]

\* lines 419-425: the loop body: the text of the chunk, if any, is appended
OnChunk(st, text) ==
  [acc |-> IF text # <<>> THEN st.acc \o text ELSE st.acc,
   parses |-> st.parses,
   notified |-> st.notified,
   thrown |-> st.thrown]

\* lines 427-441: the parse after the loop
FinalParse(acc) ==
  LET cleaned == cleanJsonStr(acc) IN
    IF ~JSONparses(cleaned) THEN [ok |-> FALSE, message |-> MalformedJson]
    ELSE IF ParsesToNull(cleaned) THEN [ok |-> FALSE, message |-> "TypeError"]
    ELSE [ok |-> TRUE, message |-> ""]

\* ---- the responses of the backend
MaxJsonChunks == 3

J_Object == <<"{", Quote, "a", Quote, ":", "[", "1", ",", Quote, "a", Quote, "]", "}">>

J_Fenced == FenceJson \o <<" ">> \o <<"{", Quote, "a", Quote, ":", "1", "}">> \o <<" ">> \o Fence

J_PlainFence == Fence \o <<"[", "1", "]">> \o Fence \o <<" ">>

J_Null == <<" ", "null">>

J_Unclosed == <<"{", Quote, "a", Quote, ":", "1", ",", "}">>

J_Prose == <<"a", " ", "{", "}">>

JsonTexts == {J_Object, J_Fenced, J_PlainFence, J_Null, J_Unclosed, J_Prose}

BackendErrors == {"429", "500", "API key not valid", "fetch failed"}

InitJson ==
  /\ jApiKey \in BOOLEAN
  /\ jText \in JsonTexts
  /\ jSent = 0
  /\ jChunks = 0
  /\ jStream = "none"
  /\ jPc = "called"
  /\ jState = [acc |-> <<>>, parses |-> 0, notified |-> 0, thrown |-> <<>>]
  /\ SelectIdle
  /\ FetchIdle
  /\ ParseIdle
  /\ StreamIdle
  /\ AppIdle
  /\ UrlIdle
  /\ PromptIdle
  /\ GenIdle
  /\ RunsIdle

\* lines 390-416: the key is checked and generateContentStream is awaited
CallStream ==
  /\ jPc = "called"
  /\ IF jApiKey
       THEN /\ jPc' = "iterating"
            /\ jStream' = "open"
            /\ jState' = jState
       ELSE /\ jPc' = "threw"
            /\ jStream' = jStream
            /\ jState' = [jState EXCEPT
                            !.thrown = Append(@, "Gemini API Key is missing. Please add it in Settings.")]
  /\ UNCHANGED <<jApiKey, jText, jSent, jChunks, exceptJson>>

\* lines 419-425: the stream yields a chunk with the next n characters
StreamChunk(n) ==
  /\ jPc = "iterating"
  /\ jStream = "open"
  /\ jChunks < MaxJsonChunks
  /\ n \in 0..(Len(jText) - jSent)
  /\ LET st == OnChunk(jState, SubSeq(jText, jSent + 1, jSent + n)) IN
       /\ jState' = st
       /\ jPc' = IF st.thrown # <<>> THEN "threw" ELSE "iterating"
  /\ jSent' = jSent + n
  /\ jChunks' = jChunks + 1
  /\ UNCHANGED <<jApiKey, jText, jStream, exceptJson>>

\* lines 427-441: the stream ends (the response may have been cut short);
\* the accumulator is cleaned and parsed, the Report is returned or the
\* error of the parse is thrown again by the catch clause
StreamEnds ==
  /\ jPc = "iterating"
  /\ jStream = "open"
  /\ jStream' = "ended"
  /\ LET r == FinalParse(jState.acc) IN
       /\ jState' = [jState EXCEPT
                       !.parses = @ + 1,
                       !.thrown = IF r.ok THEN @ ELSE Append(@, Rethrown(r.message))]
       /\ jPc' = IF r.ok THEN "returned" ELSE "threw"
  /\ UNCHANGED <<jApiKey, jText, jSent, jChunks, exceptJson>>

\* lines 419 and 443-450: the iteration of the stream throws
StreamFails(msg) ==
  /\ jPc = "iterating"
  /\ jStream = "open"
  /\ jStream' = "failed"
  /\ jState' = [jState EXCEPT !.thrown = Append(@, Rethrown(msg))]
  /\ jPc' = "threw"
  /\ UNCHANGED <<jApiKey, jText, jSent, jChunks, exceptJson>>

NextJson ==
  \/ CallStream
  \/ \E n \in 0..Len(J_Fenced) : StreamChunk(n)
  \/ StreamEnds
  \/ \E msg \in BackendErrors : StreamFails(msg)

SpecJson == InitJson /\ [][NextJson]_vars

\* ------------------------------------------------------------------------
\* selectImportantFiles applied to the listings
\* ------------------------------------------------------------------------

InitSelect ==
  /\ listing \in Listings
  /\ selected = <<>>
  /\ reselected = <<>>
  /\ selPc = "input"
  /\ FetchIdle
  /\ ParseIdle
  /\ StreamIdle
  /\ AppIdle
  /\ UrlIdle
  /\ PromptIdle
  /\ GenIdle
  /\ JsonIdle
  /\ RunsIdle

SelectFiles ==
  /\ selPc = "input"
  /\ selected' = selectImportantFiles(listing)
  /\ selPc' = "done"
  /\ UNCHANGED <<listing, reselected, exceptSelect>>

\* selectImportantFiles is called on its own output
SelectAgain ==
  /\ selPc = "done"
  /\ reselected' = selectImportantFiles(selected)
  /\ selPc' = "again"
  /\ UNCHANGED <<listing, selected, exceptSelect>>

NextSelect == SelectFiles \/ SelectAgain

SpecSelect == InitSelect /\ [][NextSelect]_vars

\* ------------------------------------------------------------------------
\* Properties of selectImportantFiles
\* ------------------------------------------------------------------------

CountWhere(xs, P(_)) == Len(SelectSeq(xs, P))

\* C3: the output of selectImportantFiles holds at most 3 entries matched by
\* the canonical name table, at most 4 source-code entries and at most 7
\* entries in all, whatever the size of the input listing.
C3_SelectionCaps ==
  selPc = "done" =>
    /\ CountWhere(selected, IsPriorityConfig) <= 3
    /\ CountWhere(selected, IsCodeEntryPoint) <= 4
    /\ Len(selected) <= 7

\* a listing with more than 3 config files and more than 4 code files, of
\* which 3 and 4 are selected
C3_Witness ==
  /\ selPc = "done"
  /\ CountWhere(listing, IsPriorityConfig) > 3
  /\ CountWhere(listing, IsCodeEntryPoint) > 4
  /\ CountWhere(selected, IsPriorityConfig) = 3
  /\ CountWhere(selected, IsCodeEntryPoint) = 4
  /\ Len(selected) = 7

\* selectImportantFiles has returned
Selected == selPc \in {"done", "again"}

Paths(xs) == {xs[j].path : j \in 1..Len(xs)}

\* C15: selectImportantFiles applied to its own output returns the same
\* entries in the same order.
C15_Idempotent ==
  selPc = "again" => reselected = selected

FirstOccurrences(xs) ==
  Pick(xs, {j \in 1..Len(xs) : \A k \in 1..(j - 1) : xs[k].path # xs[j].path}, 1)

\* C17: of several entries of tier 1 then tier 2 with the same path the output
\* keeps the first, at its position and with its fields.
C17_KeepsFirstOccurrence ==
  Selected =>
    selected = slice0(FirstOccurrences(Tier1(listing) \o Tier2(listing)), HardCap)

\* C18: the output holds no directory and no file whose lower-cased name
\* contains .test. or .spec.
C18_NoDirectoryNoTest ==
  Selected =>
    \A j \in 1..Len(selected) :
      /\ selected[j].type = "file"
      /\ ~includes(toLowerCase(selected[j].name), <<".","t","e","s","t",".">>)
      /\ ~includes(toLowerCase(selected[j].name), <<".","s","p","e","c",".">>)

\* a listing with a directory, a test file and a spec file, from which files
\* have been selected
C18_Witness ==
  /\ selPc = "done"
  /\ \E j \in 1..Len(listing) : listing[j].type = "dir"
  /\ \E j \in 1..Len(listing) : listing[j].name = N_test
  /\ \E j \in 1..Len(listing) : listing[j].name = N_spec
  /\ Len(selected) >= 2

\* ------------------------------------------------------------------------
\* Properties of parseRepoUrl
\* ------------------------------------------------------------------------

\* C19: for every owner and name, github.com/owner/name gives the pair
\* {owner, name}, the two path segments taken verbatim, whether it is bare or
\* prefixed with http:// or https://.
C19_SchemeIndependent ==
  uPc # "input" =>
    \A o \in Owners, n \in Names, p \in {<<>>, HttpPrefix, HttpsPrefix} :
      uInput = p \o GithubHost \o OwnerNamePath(o, n)
        => (uPc = "returned" /\ uResult = Repo(o, n))

\* the bare string github.com/owner/name has been parsed
C19_Witness ==
  /\ uPc = "returned"
  /\ \E o \in Owners, n \in Names :
       /\ uInput = GithubHost \o OwnerNamePath(o, n)
       /\ uResult = Repo(o, n)

\* the URL object parseRepoUrl builds from the input
UrlOfInput == URL(WithScheme(trim(uInput)))

\* C20: parseRepoUrl returns, and returns null, for every input that is not a
\* parseable URL, whose host is neither github.com nor www.github.com, or
\* whose path has fewer than two non-empty segments.
C20_NullNeverThrows ==
  uPc # "input" =>
    /\ uPc = "returned"
    /\ ( \/ ~UrlOfInput.ok
         \/ UrlOfInput.hostname \notin {GithubHost, WwwGithubHost}
         \/ Cardinality({k \in 1..Len(splitAny(UrlOfInput.pathname, {"/"})) :
                           splitAny(UrlOfInput.pathname, {"/"})[k] # <<>>}) < 2 )
         => uResult = NullRepo

\* an input the URL parser rejects has been given, and null was returned
C20_Witness ==
  /\ uPc = "returned"
  /\ uInput # <<>>
  /\ ~UrlOfInput.ok
  /\ uResult = NullRepo

\* ------------------------------------------------------------------------
\* Properties of getRepoContext
\* ------------------------------------------------------------------------

Returned == gPc = "returned"

RateLimitStatuses == {403, 429}

DirectoryRateLimited ==
  \E call \in {"root", "src"}, st \in RateLimitStatuses : <<call, st, "none">> \in answered

FileRateLimited ==
  \E st \in RateLimitStatuses : <<"file", st, "none">> \in answered

\* C4: a context returned with isFallback = true has an empty files list and
\* an empty fileTree, also when the root listing had succeeded and only the
\* source folder listing was rate limited.
C4_FallbackIsEmpty ==
  (Returned /\ context.value.isFallback) =>
    /\ context.value.files = <<>>
    /\ context.value.fileTree = <<>>

\* the root listing succeeded, the source folder listing was rate limited
C4_Witness ==
  /\ Returned
  /\ context.value.isFallback
  /\ rootItems # <<>>
  /\ \E st \in RateLimitStatuses : <<"src", st, "none">> \in answered

\* C5 as stated: isFallback = true if and only if some call, directory
\* listing or file content, was answered 403 or 429.
C5_AnyCallRateLimited ==
  Returned => (context.value.isFallback <=> (DirectoryRateLimited \/ FileRateLimited))

\* C5 amended: isFallback = true if and only if some directory-listing call
\* was answered 403 or 429; a file-content call answered 403 or 429 drops
\* that file only and leaves isFallback false.
C5_DirectoryRateLimited ==
  /\ Returned => (context.value.isFallback <=> DirectoryRateLimited)
  /\ gPc = "threw" => ~DirectoryRateLimited

\* a file-content call was answered 429 and the context is no fallback
C5_Witness ==
  /\ Returned
  /\ <<"file", 429, "none">> \in answered
  /\ ~context.value.isFallback
  /\ context.value.fileTree # <<>>

RootListingFailed ==
  \/ \E st \in {404, 500} : <<"root", st, "none">> \in answered
  \/ \E why \in {"timeout", "network"} : <<"root", 0, why>> \in answered

\* C6: when the root listing is answered 404, or fails with another status
\* than 403/429, a network error or a timeout, getRepoContext does not
\* return a RepoContext (it fails with an error).
C6_RootFailureSurfaces == RootListingFailed => ~Returned

\* ---- fetchFileContents

Decodable(data) ==
  /\ data.json
  /\ data.hasContent
  /\ data.encoding = "base64"
  /\ AtobDefined(RemoveNewlines(data.content))

\* the request was answered 200 with a base64 body that decodes
SucceededBase64(req) == req.status = 200 /\ Decodable(req.body)

FileOf(req) ==
  [path |-> req.file.path, content |-> atob(RemoveNewlines(req.body.content))]

SucceededFiles(reqs) ==
  LET ok == SelectSeq(reqs, SucceededBase64)
  IN [j \in 1..Len(ok) |-> FileOf(ok[j])]

SucceededNonEmpty(req) == SucceededBase64(req) /\ req.body.content # <<>>

SucceededNonEmptyFiles(reqs) ==
  LET ok == SelectSeq(reqs, SucceededNonEmpty)
  IN [j \in 1..Len(ok) |-> FileOf(ok[j])]

\* no request is dropped by an abort unless its own timer fired
OwnTimerOnly ==
  \A j \in 1..Len(fileReqs) :
    fileReqs[j].cause = "abort" => fileReqs[j].timer = "fired"

\* fetchFileContents never throws: getRepoContext throws only before the
\* file requests are made
FilesNeverThrow == gPc = "threw" => fileReqs = <<>>

\* C7 as stated: the files returned are exactly those whose fetch succeeded
\* with base64 content, in selection order.
C7_ExactlySucceeded ==
  (Returned /\ ~context.value.isFallback) =>
    context.value.files = SucceededFiles(fileReqs)

\* C7 amended: fetchFileContents never throws and returns, in selection
\* order, exactly the files whose fetch succeeded with non-empty base64
\* content (an empty content field is dropped like a missing one); a request
\* is aborted by its own timer only, in every interleaving.
C7_ExactlySucceededNonEmpty ==
  /\ (Returned /\ ~context.value.isFallback) =>
       context.value.files = SucceededNonEmptyFiles(fileReqs)
  /\ OwnTimerOnly
  /\ FilesNeverThrow

\* three files requested: the first timed out, the second was answered 500,
\* the third succeeded and is the only file returned
C7_Witness ==
  /\ Returned
  /\ Len(fileReqs) = 3
  /\ fileReqs[1].cause = "abort"
  /\ fileReqs[2].status = 500
  /\ SucceededNonEmpty(fileReqs[3])
  /\ context.value.files = << FileOf(fileReqs[3]) >>


\* ------------------------------------------------------------------------
\* the parser's output guarantee
\* ------------------------------------------------------------------------

SectionFields ==
  {"projectOverview", "architectureSummary", "componentBreakdown",
   "dataControlFlow", "codeQualityRisks", "improvementSuggestions"}

ReportFields == SectionFields \cup {"metaAnalysis", "architectureDiagram"}

IsList(x) == DOMAIN x = 1..Len(x)

IsHeaderLine(l) == startsWith(trim(l), Marker) /\ endsWith(trim(l), Marker)

HeaderName(l) == trim(RemoveMarkers(trim(l)))

\* line k of the text lies in a section called name: the nearest header line
\* above it carries that name
InSection(lines, k, name) ==
  \E h \in 1..(k - 1) :
    /\ IsHeaderLine(lines[h])
    /\ HeaderName(lines[h]) = name
    /\ \A j \in (h + 1)..k : ~IsHeaderLine(lines[j])

HasMetaKeyword(l) ==
  includes(l, W_Score) \/ includes(l, W_Complexity) \/ includes(l, W_Maintainability)

\* the META ANALYSIS section is absent or none of its lines has a keyword
NoMetaKeywordLine(text) ==
  LET lines == split(text) IN
  \A k \in 1..Len(lines) : InSection(lines, k, S_Meta) => ~HasMetaKeyword(lines[k])

\* C2: whatever the input text, the Report returned by parseAnalysisResult
\* has all six sections, each with its item list (empty when the text has no
\* line in that section), a diagram string and a metaAnalysis; and when the
\* META ANALYSIS section is absent or has no line containing Score,
\* Complexity or Maintainability, metaAnalysis is
\* {qualityScore 5, complexity Intermediate, maintainability Medium}.
C2_FullyPopulated ==
  pPc = "done" =>
    /\ DOMAIN pReport = ReportFields
    /\ \A f \in SectionFields :
         /\ DOMAIN pReport[f] = {"title", "items"}
         /\ IsList(pReport[f].items)
         /\ (\A k \in 1..Len(split(pText)) :
               ~InSection(split(pText), k, pReport[f].title))
             => pReport[f].items = <<>>
    /\ IsList(pReport.architectureDiagram)
    /\ DOMAIN pReport.metaAnalysis = {"qualityScore", "complexity", "maintainability"}
    /\ NoMetaKeywordLine(pText) =>
         pReport.metaAnalysis =
           [qualityScore |-> 5, complexity |-> "Intermediate", maintainability |-> "Medium"]

\* a text with a META ANALYSIS section whose only line has no keyword, and no
\* PROJECT OVERVIEW section, has been parsed
C2_Witness ==
  /\ pPc = "done"
  /\ \E k \in 1..Len(split(pText)) :
       /\ InSection(split(pText), k, S_Meta)
       /\ trim(split(pText)[k]) # <<>>
  /\ NoMetaKeywordLine(pText)
  /\ pReport.metaAnalysis.qualityScore = 5
  /\ pReport.projectOverview.items = <<>>
  /\ pReport.architectureSummary.title = S_Architecture

\* ------------------------------------------------------------------------
\* the streaming loop
\* ------------------------------------------------------------------------

RECURSIVE Concat(_)
Concat(chunks) == IF chunks = <<>> THEN <<>> ELSE Head(chunks) \o Concat(Tail(chunks))

IsPrefix(a, b) == Len(a) <= Len(b) /\ SubSeq(b, 1, Len(a)) = a

\* the bytes the handler produces for each text
Produced == [t \in StreamTexts |-> encode(t)]

\* the characters that the first k received chunks hold completely
TextOfChunks(k) == decodeStream(Concat(SubSeq(received, 1, k))).text

\* some received chunk ends inside the bytes of a character
CutInsideCharacter ==
  \E k \in 1..Len(received) :
    decodeStream(Concat(SubSeq(received, 1, k))).pending # <<>>

\* parseAnalysisResult applied to each whole text in one shot
OneShot == [t \in StreamTexts |-> parseAnalysisResult(t)]

\* C1: however the bytes of a complete text are cut into chunks, the Report
\* analyzeRepo returns at the end of the stream is the Report
\* parseAnalysisResult gives for the whole text in one shot (with the
\* isFallback argument set on it).
C1_StreamedEqualsOneShot ==
  aPc = "returned" => result = SetIsFallback(OneShot[sText], sFallback)

\* a text with sections has been returned after three chunks, one of which
\* ended inside a character
C1_Witness ==
  /\ aPc = "returned"
  /\ Len(received) = MaxChunks
  /\ CutInsideCharacter
  /\ result.projectOverview.items # <<>>

\* C10: the received chunks are a prefix of the bytes the handler produced, in
\* order; the accumulator is their concatenation (decoded); with a callback
\* there is one call per received chunk and the kth call carries the Report
\* parsed from the first k chunks; the result returned is the parse of all
\* chunks; and after analyzeRepo has returned or thrown no call is added.
C10_AccumulatorInv ==
  /\ IsPrefix(Concat(received) \o wire, Produced[sText])
  /\ accumulatedText = TextOfChunks(Len(received))
  /\ Len(calls) = IF onProgress THEN Len(received) ELSE 0
  /\ \A k \in 1..Len(calls) :
       calls[k] = SetIsFallback(parseAnalysisResult(TextOfChunks(k)), sFallback)
  /\ aPc = "returned" =>
       result = SetIsFallback(parseAnalysisResult(TextOfChunks(Len(received))), sFallback)

C10_ReceiptOrder ==
  /\ []C10_AccumulatorInv
  /\ [][(aPc \in {"returned", "threw"}) => (calls' = calls)]_vars

\* the third chunk has been received and reported while the stream is open
C10_Witness ==
  /\ onProgress
  /\ Len(calls) = MaxChunks
  /\ calls[1] # calls[MaxChunks]
  /\ aPc = "reading"
  /\ wire # <<>>


\* ------------------------------------------------------------------------
\* the status of the calling pipeline
\* ------------------------------------------------------------------------

\* the status changes of one attempt: forward along the pipeline, or to error
ForwardSteps ==
  {<<"fetching", "analyzing">>, <<"analyzing", "analyzing">>, <<"analyzing", "complete">>}

FailureSteps == {<<"fetching", "error">>, <<"analyzing", "error">>}

\* C8 as stated: the status only moves idle -> fetching -> analyzing ->
\* complete with analyzing self-loops, error is entered only from fetching or
\* analyzing, and no transition leaves error.
C8_ErrorAbsorbing ==
  [][/\ state.status = "error" => state'.status = "error"
     /\ (state'.status = "error" /\ state.status # "error")
          => state.status \in {"fetching", "analyzing"}
     /\ state'.status # state.status
          => <<state.status, state'.status>>
               \in ForwardSteps \cup FailureSteps \cup {<<"idle", "fetching">>}]_vars

\* C8 as amended: a submission is possible only from idle, complete or error
\* and leads to fetching, or to error when it is rejected; between submissions
\* the status moves fetching -> analyzing -> complete with analyzing
\* self-loops, or to error from fetching or analyzing; no step leads to idle.
C8_AttemptTransitions ==
  [][IF attempts' # attempts
     THEN /\ state.status \in {"idle", "complete", "error"}
          /\ state'.status \in {"fetching", "error"}
     ELSE \/ state' = state
          \/ <<state.status, state'.status>> \in ForwardSteps \cup FailureSteps]_vars

\* a rejected submission has led from idle to error, and the next submission
\* from error to fetching
C8_Witness ==
  /\ Len(trail) >= 2
  /\ trail[1] = "error"
  /\ trail[2] = "fetching"
  /\ state.status = "analyzing"
  /\ delivered > 0

\* each attempt that has ended has exactly one terminal outcome, and none
\* has more
OneOutcome ==
  /\ Len(outcomes) <= 1
  /\ (hPc = "none" /\ attempts > 0) => Len(outcomes) = 1
  /\ outcomes # <<>> => (state.status = outcomes[1] /\ hPc = "none")

\* C9 as stated: one terminal outcome per attempt, and after an error that
\* follows progress snapshots the consumer still holds the last snapshot.
C9_SnapshotKept ==
  /\ OneOutcome
  /\ (state.status = "error" /\ delivered > 0) => state.data = Partial(delivered, isFallback)

\* C9 as amended: one terminal outcome per attempt, after which the attempt
\* changes the state no more; the error state holds no Report (the snapshots
\* delivered before it are dropped and no results are shown).
C9_OneOutcomeErrorClearsData ==
  /\ [](OneOutcome /\ (state.status = "error" => (state.data = NoData /\ ~showResults)))
  /\ [][(outcomes # <<>> /\ attempts' = attempts) => (state' = state /\ outcomes' = outcomes)]_vars

\* an attempt has failed after its snapshots were delivered
C9_Witness ==
  /\ state.status = "error"
  /\ delivered = MaxSnapshots
  /\ outcomes = <<"error">>
  /\ Len(trail) >= 2
  /\ trail[Len(trail) - 1] = "analyzing"

\* ------------------------------------------------------------------------
\* Properties of the prompt
\* ------------------------------------------------------------------------

PromptBuilt == qPc \in {"gemini.ts", "streaming"}

Kinds(p) == {p[i].kind : i \in 1..Len(p)}

\* the prompt without its first and last line: the context section
ContextOf(p) == SubSeq(p, 2, Len(p) - 1)

FileKinds == {"body", "START FILE", "END FILE"}

TreeKinds == {"path", "FILE STRUCTURE", "END STRUCTURE"}

\* the context is the path list, then one delimited block per file, in order
PathListThenBlocks(c) ==
  LET t == Len(qFileTree)
      n == Len(qFiles)
  IN /\ Len(c) = t + 2 + 3 * n
     /\ c[1].kind = "FILE STRUCTURE"
     /\ \A i \in 1..t : c[1 + i].kind = "path" /\ c[1 + i].text = qFileTree[i]
     /\ c[t + 2].kind = "END STRUCTURE"
     /\ \A j \in 1..n :
          LET at == t + 2 + 3 * (j - 1) IN
            /\ c[at + 1].kind = "START FILE" /\ c[at + 1].text = qFiles[j].path
            /\ c[at + 2].kind = "body" /\ c[at + 2].text = qFiles[j].path
            /\ c[at + 3].kind = "END FILE" /\ c[at + 3].text = qFiles[j].path

\* C13: with isFallback the prompt holds the fallback notice and no file
\* body, no per-file delimiter and no path list, whatever fileTree and files
\* are; without it the prompt holds the path list followed by one delimited
\* block per file.
C13_FallbackPromptHasNoFiles ==
  PromptBuilt =>
    IF qIsFallback
      THEN /\ "CRITICAL NOTICE" \in Kinds(prompt)
           /\ Kinds(prompt) \cap (FileKinds \cup TreeKinds) = {}
      ELSE /\ "CRITICAL NOTICE" \notin Kinds(prompt)
           /\ PathListThenBlocks(ContextOf(prompt))

\* a fallback prompt was built although files and a file tree were passed in
C13_Witness ==
  /\ PromptBuilt
  /\ qIsFallback
  /\ qFiles # <<>>
  /\ qFileTree # <<>>
  /\ "CRITICAL NOTICE" \in Kinds(prompt)

Bodies(p) == SelectSeq(p, LAMBDA s : s.kind = "body")

\* the prompt the analyzeRepo that built this one builds for a deepReasoning
PromptFor(deepReasoning) ==
  IF qPc = "gemini.ts"
    THEN analyzeRepoPromptGemini(qRepoName, qFileTree, qFiles, deepReasoning, qIsFallback)
    ELSE analyzeRepoPromptStreaming(qRepoName, qFileTree, qFiles, deepReasoning, qIsFallback)

\* every body is a prefix of its file, cut at one length for all files
TruncatedToBudget ==
  LET b == Bodies(prompt) IN
    /\ Len(b) = Len(qFiles)
    /\ \A j \in 1..Len(b) : b[j].start = 0 /\ b[j].len <= qFiles[j].content.len
    /\ \A j, k \in 1..Len(b) :
         b[j].len < qFiles[j].content.len =>
           b[k].len = IF qFiles[k].content.len < b[j].len
                        THEN qFiles[k].content.len ELSE b[j].len

\* a file that is cut without deepReasoning keeps strictly more with it
DeepKeepsMore ==
  LET deep == Bodies(PromptFor(TRUE))
      plain == Bodies(PromptFor(FALSE))
  IN \A j \in 1..Len(qFiles) :
       plain[j].len < qFiles[j].content.len => deep[j].len > plain[j].len

\* C14: every file body in the prompt is truncated to a fixed budget, and
\* the budget with deepReasoning is strictly larger than the budget without.
C14_DeepBudgetLarger ==
  (PromptBuilt /\ ~qIsFallback) => (TruncatedToBudget /\ DeepKeepsMore)

\* ------------------------------------------------------------------------
\* Properties of the isFallback flag
\* ------------------------------------------------------------------------

Carries(report, fb) == "isFallback" \in DOMAIN report /\ report.isFallback = fb

\* C12: every progress snapshot and the final Report carry the isFallback of
\* the RepoContext (true after a rate-limited fetch, false otherwise),
\* whichever model attempt produced the text; the flag never makes the
\* analysis fail: it throws only when the backend call failed.
C12_ReportsCarryIsFallback ==
  /\ \A i \in 1..Len(calls) : Carries(calls[i], sFallback)
  /\ aPc = "returned" => Carries(result, sFallback)
  /\ aPc = "threw" => streamState = "errored"
  /\ nPc = "returned" => Carries(nResult, nIsFallback)
  /\ nPc = "threw" => (~nApiKey \/ firstError # <<>>)

\* a Report produced by the fallback model after a rate-limited fetch
C12_Witness ==
  /\ nPc = "returned"
  /\ nIsFallback
  /\ Len(backendCalls) = 2
  /\ nResult.isFallback

\* ------------------------------------------------------------------------
\* Properties of the JSON response
\* ------------------------------------------------------------------------

\* C11: while the stream is open the accumulator, valid JSON or not, raises
\* no error and triggers no progress callback, and nothing is parsed; the
\* malformed-JSON error comes only from the single parse made after the
\* stream has ended, and it is the one error the call throws.
C11_OnlyFinalParseRaises ==
  /\ jStream = "open" =>
        (jState.thrown = <<>> /\ jState.notified = 0 /\ jState.parses = 0)
  /\ jPc # "off" => (jState.parses <= 1 /\ Len(jState.thrown) <= 1)
  /\ (jPc # "off" /\ \E i \in 1..Len(jState.thrown) : jState.thrown[i] = MalformedJson) =>
        /\ jStream = "ended"
        /\ jPc = "threw"
        /\ jState.parses = 1
        /\ ~JSONparses(cleanJsonStr(jState.acc))
  /\ (jStream = "ended" /\ ~JSONparses(cleanJsonStr(jState.acc))) =>
        jState.thrown = <<MalformedJson>>

\* a response cut short over two chunks or more, whose parse after the end of
\* the stream raised the malformed-JSON error
C11_Witness ==
  /\ jPc = "threw"
  /\ jStream = "ended"
  /\ jChunks >= 2
  /\ jState.acc # <<>>
  /\ jState.thrown = <<MalformedJson>>

\* ------------------------------------------------------------------------
\* Properties of the items, the score and the diagram of the Report
\* ------------------------------------------------------------------------

\* C21: in every Report returned by parseAnalysisResult every item of every
\* section is non-empty, has no leading or trailing white space and does not
\* start with a bullet marker.
C21_ItemsCleaned ==
  pPc = "done" =>
    \A f \in SectionFields :
      \A i \in 1..Len(pReport[f].items) :
        LET item == pReport[f].items[i] IN
          /\ item # <<>>
          /\ trim(item) = item
          /\ StripBullet(item) = item

\* C24: no declaration-only file (a file whose name ends in .d.ts) is in the
\* output of selectImportantFiles, whatever the listing.
C24_NoDeclarationFile ==
  selPc \in {"done", "again"} =>
    \A i \in 1..Len(selected) :
      ~endsWith(toLowerCase(selected[i].name), <<".", "d", ".", "t", "s">>)

\* C22: in every Report returned by the parser metaAnalysis.qualityScore is
\* an integer between 1 and 10 inclusive, whatever digits the Score line
\* holds.
C22_ScoreInRange ==
  pPc = "done" => pReport.metaAnalysis.qualityScore \in 1..10

\* the header lines of the text that carry the name
HeadersNamed(lines, name) ==
  {h \in 1..Len(lines) : IsHeaderLine(lines[h]) /\ HeaderName(lines[h]) = name}

\* the lines after header line h up to the next header line or the end
LinesAfter(lines, h) ==
  LET later == {j \in (h + 1)..Len(lines) : IsHeaderLine(lines[j])}
      stop  == IF later = {} THEN Len(lines) + 1
               ELSE CHOOSE j \in later : \A k \in later : j <= k
  IN SubSeq(lines, h + 1, stop - 1)

\* the non-empty lines after the last header with the name, each trimmed and
\* without its bullet, in input order
ItemsAfterLastHeader(text, name) ==
  LET lines == split(text)
      hs    == HeadersNamed(lines, name)
  IN IF hs = {} THEN <<>>
     ELSE LET last == CHOOSE h \in hs : \A k \in hs : k <= h
              kept == SelectSeq(LinesAfter(lines, last), LAMBDA l : trim(l) # <<>>)
          IN [i \in 1..Len(kept) |-> StripBullet(trim(kept[i]))]

\* C25: a line that starts and ends with === opens the section named between
\* the markers and empties its item list, so a section holds the non-empty
\* lines that follow the last occurrence of its header up to the next
\* header, in input order; lines before the first header are in no section.
C25_HeaderResetsSection ==
  pPc = "done" =>
    \A f \in SectionFields :
      pReport[f].items = ItemsAfterLastHeader(pText, pReport[f].title)

\* the PROJECT OVERVIEW header occurs twice, with an item after each and a
\* line before the first
C25_Witness ==
  /\ pPc = "done"
  /\ LET lines == split(pText)
         hs == HeadersNamed(lines, S_Overview)
     IN /\ Cardinality(hs) = 2
        /\ \A h \in hs : LinesAfter(lines, h) # <<>> /\ trim(LinesAfter(lines, h)[1]) # <<>>
        /\ ~IsHeaderLine(lines[1]) /\ trim(lines[1]) # <<>>
  /\ Len(pReport.projectOverview.items) = 2

\* the last item that satisfies P, <<>> when there is none
LastItem(items, P(_)) ==
  LET at == {i \in 1..Len(items) : P(items[i])} IN
    IF at = {} THEN <<>> ELSE items[CHOOSE i \in at : \A j \in at : j <= i]

\* the value of the first run of digits of the line, 5 when it has no digit
FirstInteger(l) ==
  LET ds == {i \in 1..Len(l) : IsDigit(l[i])} IN
    IF ds = {} THEN 5
    ELSE LET from == CHOOSE i \in ds : \A j \in ds : i <= j
             ends == {e \in from..Len(l) : \A j \in from..e : IsDigit(l[j])}
             to   == CHOOSE e \in ends : \A j \in ends : j <= e
         IN DecimalValue(SubSeq(l, from, to), 0)

\* the word written in any letter case occurs in the line
HasWord(l, w) == includes(toLowerCase(l), w)

\* C26: of the items of the META ANALYSIS section, qualityScore is the first
\* integer of the item containing Score (5 when it has no integer, or when
\* there is no such item); complexity is Beginner or Advanced when the item
\* containing Complexity has that word in any letter case, Intermediate
\* otherwise; maintainability is Low or High when the item containing
\* Maintainability has that word in any letter case, Medium otherwise. When
\* several items carry a keyword the last one that decides is taken.
C26_MetaFields ==
  pPc = "done" =>
    LET items == ItemsAfterLastHeader(pText, S_Meta)
        score == LastItem(items, LAMBDA l : includes(l, W_Score))
        cplx  == LastItem(items, LAMBDA l : includes(l, W_Complexity)
                                   /\ (HasWord(l, W_beginner) \/ HasWord(l, W_advanced)))
        mnt   == LastItem(items, LAMBDA l : includes(l, W_Maintainability)
                                   /\ (HasWord(l, W_low) \/ HasWord(l, W_high)))
    IN /\ pReport.metaAnalysis.qualityScore = FirstInteger(score)
       /\ pReport.metaAnalysis.complexity =
            IF cplx = <<>> THEN "Intermediate"
            ELSE IF HasWord(cplx, W_advanced) THEN "Advanced" ELSE "Beginner"
       /\ pReport.metaAnalysis.maintainability =
            IF mnt = <<>> THEN "Medium"
            ELSE IF HasWord(mnt, W_high) THEN "High" ELSE "Low"

\* a META ANALYSIS section with a Score item holding an integer and a
\* Complexity item whose level is written in capitals
C26_Witness ==
  /\ pPc = "done"
  /\ \E i \in 1..Len(ItemsAfterLastHeader(pText, S_Meta)) :
       LET l == ItemsAfterLastHeader(pText, S_Meta)[i] IN
         includes(l, W_Complexity) /\ ~includes(l, W_advanced) /\ HasWord(l, W_advanced)
  /\ pReport.metaAnalysis.qualityScore = 8
  /\ pReport.metaAnalysis.complexity = "Advanced"

\* the lines of the text that lie in an ARCHITECTURE DIAGRAM section
DiagramLines(text) ==
  LET lines == split(text)
      at    == {k \in 1..Len(lines) :
                  ~IsHeaderLine(lines[k]) /\ InSection(lines, k, S_Diagram)}
      Nth(n) == CHOOSE k \in at : Cardinality({j \in at : j < k}) = n - 1
  IN [n \in 1..Cardinality(at) |-> lines[Nth(n)]]

\* C27: the lines that follow the ARCHITECTURE DIAGRAM header are kept as
\* they are, leading white space and blank lines included, up to the next
\* header or the end of the text; the diagram of the Report is exactly these
\* lines joined by newlines, the first line keeping its indentation.
C27_DiagramVerbatim ==
  pPc = "done" => pReport.architectureDiagram = Join(DiagramLines(pText))

\* ------------------------------------------------------------------------
\* Properties of a submission
\* ------------------------------------------------------------------------

\* C23: a submission whose reference is empty or for which parseRepoUrl
\* returns null sets the error state at once and starts neither
\* getRepoContext nor analyzeRepo: the status does not become fetching and
\* the submission is over with that one error.
C23_InvalidReferenceNoFetch ==
  [][(attempts' = attempts + 1 /\ url \in {"empty", "invalid"}) =>
       (/\ state'.status = "error"
        /\ state'.data = NoData
        /\ hPc = "none" /\ hPc' = "none"
        /\ currentStep' = currentStep
        /\ outcomes' = <<"error">>
        /\ trail' = Append(trail, "error"))]_vars

\* a submission with a key and a reference that is no repository URL has
\* ended in the error state
C23_Witness ==
  /\ geminiApiKey
  /\ url = "invalid"
  /\ state.status = "error"
  /\ state.message = "invalid URL"
  /\ hPc = "none"
  /\ outcomes = <<"error">>


\* C30: at most one analysis is in flight at a time. A call of handleAnalyze
\* starts only when no call is in flight and the status is neither fetching
\* nor analyzing; never are two calls in flight; while a call is in flight the
\* status is fetching or analyzing; and every write of the shared state, a
\* progress snapshot or a terminal state, is made by the latest call, so that
\* no earlier call overwrites what a later one wrote.
C30_OneAnalysisInFlight ==
  [][/\ (Len(runs') > Len(runs)) =>
          (InFlight(runs) = {} /\ state.status \notin {"fetching", "analyzing"})
     /\ Cardinality(InFlight(runs')) <= 1
     /\ (InFlight(runs') # {}) => (state'.status \in {"fetching", "analyzing"})
     /\ (state' # state \/ writer' # writer) => (writer' = Len(runs'))
     /\ \A k \in 1..Len(runs) :
          (runs'[k] # runs[k]) => (k = Len(runs) /\ Len(runs') = Len(runs))]_vars

\* a second analysis has delivered a snapshot after the first one completed
\* with snapshots of its own
C30_Witness ==
  /\ Len(runs) = 2
  /\ runs[1].pc = "none" /\ runs[1].delivered >= 1
  /\ runs[2].pc = "analyzeRepo" /\ runs[2].delivered >= 1
  /\ writer = 2
  /\ state.status = "analyzing" /\ state.data # NoData


\* the keywords of a rate-limit, quota or server error
RetryKeywords == {"429", "quota", "exhausted", "500", "503", "internal error"}

\* C28: one invocation of the non-streaming analyzeRepo calls the generation
\* backend at most twice; there is a second call only after the first one
\* failed with an error whose text holds 429, quota, exhausted, 500, 503 or
\* internal error; the second call carries the prompt and the system
\* instruction of the first; and after a first failure of any other kind the
\* invocation has thrown with that single call made.
C28_AtMostOneRetry ==
  /\ Len(backendCalls) <= 2
  /\ (Len(backendCalls) = 2 \/ nPc \in {"delay", "fallback"}) =>
       (firstError # <<>> /\ firstError[1] \cap RetryKeywords # {})
  /\ Len(backendCalls) = 2 =>
       /\ backendCalls[2].contents = backendCalls[1].contents
       /\ backendCalls[2].systemInstruction = backendCalls[1].systemInstruction
       /\ backendCalls[1].model = "gemini-3-pro-preview"
       /\ backendCalls[2].model = "gemini-3-flash-preview"
  /\ (firstError # <<>> /\ firstError[1] \cap RetryKeywords = {}) =>
       (nPc = "threw" /\ Len(backendCalls) = 1 /\ nThrown = FailureMessage(firstError[1]))

\* the retry failed as well: two calls were made and the invocation threw
C28_Witness ==
  /\ nPc = "threw"
  /\ Len(backendCalls) = 2
  /\ firstError # <<>> /\ "503" \in firstError[1]


\* C29: getRepoContext always terminates: once it is called, the fetching
\* phase eventually ends in a returned RepoContext or a thrown error, the
\* timers aborting every request the API does not answer.
C29_FetchTerminates ==
  (gPc = "root") ~> (gPc \in {"returned", "threw"})

====
